---- MODULE Spec2Model ----
(***************************************************************************)
(* TrackNote: the statement-parsing core of src/parsing.py, the index of   *)
(* src/app.py that keys its rows, the Google Sheets cache of                *)
(* src/sheets_cache.py, the archive of src/db_manager.py and the            *)
(* background threads of src/firebase_sync.py.                              *)
(*                                                                         *)
(* A text is a sequence of characters; a character is a one-character      *)
(* string ("NBSP" and "MINUS" name U+00A0 and U+2212).  The regular        *)
(* expressions of the source are operators over such sequences, written    *)
(* as the matcher works: leftmost match, greedy repetition.  Python's      *)
(* None is the value None below.                                           *)
(***************************************************************************)
EXTENDS Integers, Sequences, FiniteSets, TLC

VARIABLES
    op,               \* the part of the program at work: "split_details", "normalize",
                      \* "rebuild_index", "parse", "fetch_rows", "archive", "writes"
                      \* or "listener"
    text,             \* the argument of split_details or normalize
    triple,           \* what split_details returned
    path,             \* the argument of parse
    content,          \* the file behind the path
    PYPDF_AVAILABLE,  \* line 12 or 14
    pc,               \* where the call is
    invoked,          \* the extractors whose parse has been called
    opened,           \* whether the file has been opened
    ntry,             \* the Ntry element the XML loop is at, <<>> outside it
    row,              \* what the entry, block or row gave: <<row>> or <<>>
    transactions,     \* the extractor's list
    stream,           \* full_stream of the PDF extractor
    anchors,          \* anchors of the PDF extractor
    idx,              \* the entries or blocks gone through
    result,           \* what parse or normalize returned or raised
    raw_rows,         \* the argument of rebuild_index
    df,               \* _df of src/app.py, as a list of records
    cfg,              \* what read_user_config() gives
    clock,            \* time.time(), in seconds
    ticks,            \* how often the clock has moved on
    CACHE_FILE,       \* sheets_cache.json
    worksheet,        \* the rows of the configured tab at Google Sheets
    calls,            \* the calls of fetch_rows so far
    fetched,          \* whether the last call of fetch_rows went to Google Sheets
    table,            \* the transactions table: key -> <<row>>, <<>> for no row
    today,            \* the local day, a day number of the calendar below
    days,             \* the argument of the last archive_old_transactions
    rowcount,         \* what the last archive_old_transactions returned
    active,           \* the keys the last get_active_transactions returned
    archive_calls,    \* the calls of archive_old_transactions so far
    connected,        \* FirebaseSync._connected
    lock,             \* who holds FirebaseSync._lock: "free" or "loop"
    pending_writes,   \* _pending_writes: kind -> row key -> the write, 0 for no entry
    snapshot,         \* status_writes, notes_writes, transaction_writes of the loop
    loop_pc,          \* where the thread of _batch_write_loop is
    write_running,    \* _write_running
    accepted,         \* the writes enqueued so far, in the order of their enqueue
    sent,             \* the writes the server has answered with success
    copies,           \* write -> the number of snapshots it was copied into
    replaced,         \* the writes a later write for the same row key overwrote
    local_cache,      \* _status_cache, _notes_cache, _transactions_cache: the row keys
    connection_error_count,
    listener_running, \* _listener_running
    pollers,          \* the threads of _poll_changes, each where it is
    delivered,        \* the threads that called back since the last start
    callback_after_stop  \* a callback was made while _listener_running was False

\* the variables of the parsing calls other than op and result
parse_state == <<text, triple, path, content, PYPDF_AVAILABLE, pc, invoked, opened, ntry,
                 row, transactions, stream, anchors, idx, raw_rows, df>>

cache_vars == <<cfg, clock, ticks, CACHE_FILE, worksheet, calls, fetched>>

db_vars == <<table, today, days, rowcount, active, archive_calls>>

write_vars == <<lock, pending_writes, snapshot, loop_pc, accepted, sent, copies, replaced,
                local_cache, connection_error_count>>

listener_vars == <<listener_running, pollers, delivered, callback_after_stop>>

sync_vars == <<connected, write_running, write_vars, listener_vars>>

vars == <<op, result, parse_state, cache_vars, db_vars, sync_vars>>

-----------------------------------------------------------------------------
(* Bounds of the model *)

\* longest split_details input, in chunks of SplitChunks
MaxChunks == 4
\* most Ntry elements of an XML document
MaxEntries == 2
\* most pages of a PDF file
MaxPages == 2
\* most raw rows of rebuild_index
MaxRows == 2

-----------------------------------------------------------------------------
(* Characters and strings *)

None == <<"<None>">>

Digits == {"0", "1", "2", "3", "4", "5", "6", "7", "8", "9"}

\* what \s, str.split() and str.strip() take as whitespace
Whitespace == {" ", "\t", "\n", "NBSP"}

LowerLetters == <<"a", "b", "c", "d", "e", "f", "g", "h", "i", "j", "k", "l", "m",
                  "n", "o", "p", "q", "r", "s", "t", "u", "v", "w", "x", "y", "z">>

UpperLetters == <<"A", "B", "C", "D", "E", "F", "G", "H", "I", "J", "K", "L", "M",
                  "N", "O", "P", "Q", "R", "S", "T", "U", "V", "W", "X", "Y", "Z">>

Range(f) == {f[x] : x \in DOMAIN f}

Min(S) == CHOOSE x \in S : \A y \in S : x <= y

isalpha(ch) == ch \in Range(LowerLetters) \cup Range(UpperLetters)

isdigit(ch) == ch \in Digits

upper_ch(ch) ==
    IF \E k \in 1..26 : LowerLetters[k] = ch
    THEN UpperLetters[CHOOSE k \in 1..26 : LowerLetters[k] = ch]
    ELSE ch

lower_ch(ch) ==
    IF \E k \in 1..26 : UpperLetters[k] = ch
    THEN LowerLetters[CHOOSE k \in 1..26 : UpperLetters[k] = ch]
    ELSE ch

upper(s) == [k \in 1..Len(s) |-> upper_ch(s[k])]

lower(s) == [k \in 1..Len(s) |-> lower_ch(s[k])]

\* s[a:b] of Python with 0 <= a, b <= len(s), in 0-based offsets
Slice(s, a, b) == SubSeq(s, a + 1, b)

RECURSIVE Flatten(_)
Flatten(ss) == IF ss = <<>> THEN <<>> ELSE Head(ss) \o Flatten(Tail(ss))

RECURSIVE split_from(_, _, _)
split_from(s, cur, acc) ==
    IF s = <<>>
    THEN IF cur = <<>> THEN acc ELSE Append(acc, cur)
    ELSE IF Head(s) \in Whitespace
         THEN split_from(Tail(s), <<>>, IF cur = <<>> THEN acc ELSE Append(acc, cur))
         ELSE split_from(Tail(s), Append(cur, Head(s)), acc)

\* str.split(): the whitespace-delimited tokens
split(s) == split_from(s, <<>>, <<>>)

RECURSIVE join(_, _)
\* sep.join(parts)
join(sep, parts) ==
    IF parts = <<>> THEN <<>>
    ELSE IF Len(parts) = 1 THEN parts[1]
    ELSE parts[1] \o sep \o join(sep, Tail(parts))

RECURSIVE lstrip(_, _)
lstrip(s, chars) ==
    IF s # <<>> /\ Head(s) \in chars THEN lstrip(Tail(s), chars) ELSE s

RECURSIVE rstrip(_, _)
rstrip(s, chars) ==
    IF s # <<>> /\ s[Len(s)] \in chars THEN rstrip(SubSeq(s, 1, Len(s) - 1), chars) ELSE s

\* str.strip(chars): both ends
strip(s, chars) == rstrip(lstrip(s, chars), chars)

\* str.replace(old, new) for a one-character old
replace(s, old, new) == Flatten([k \in 1..Len(s) |-> IF s[k] = old THEN new ELSE <<s[k]>>])

\* needle in haystack
Contains(haystack, needle) ==
    \E a \in 0..(Len(haystack) - Len(needle)) :
        Slice(haystack, a, a + Len(needle)) = needle

-----------------------------------------------------------------------------
(* IBAN_RE = (?i)LT\s*\d(?:\s*\d){15,19} *)

IbanMinRepeat == 15
IbanMaxRepeat == 19

NoMatch == [start |-> -1, end |-> -1]

\* not x, for a string or None
Falsy(x) == x = None \/ x = <<>>

RECURSIVE IbanDigits(_, _, _, _)
\* the greedy run of \s*\d groups from offset p: k digits taken so far, the
\* match so far ends at offset e
IbanDigits(s, p, k, e) ==
    IF k = 1 + IbanMaxRepeat \/ p >= Len(s) THEN [k |-> k, end |-> e]
    ELSE IF s[p + 1] \in Whitespace THEN IbanDigits(s, p + 1, k, e)
    ELSE IF s[p + 1] \in Digits THEN IbanDigits(s, p + 1, k + 1, p + 1)
    ELSE [k |-> k, end |-> e]

\* the end offset of the match that starts at offset a, or -1
IbanMatchAt(s, a) ==
    IF a + 2 <= Len(s) /\ upper_ch(s[a + 1]) = "L" /\ upper_ch(s[a + 2]) = "T"
    THEN LET r == IbanDigits(s, a + 2, 0, a + 2)
         IN  IF r.k >= 1 + IbanMinRepeat THEN r.end ELSE -1
    ELSE -1

\* IBAN_RE.search(s): the leftmost match, as the span [start, end) of offsets
IBAN_RE_search(s) ==
    LET starts == {a \in 0..(Len(s) - 1) : IbanMatchAt(s, a) # -1}
    IN  IF starts = {} THEN NoMatch
        ELSE [start |-> Min(starts), end |-> IbanMatchAt(s, Min(starts))]

clean_iban_keep_case(raw0) ==
    LET raw == strip(raw0, Whitespace)
        letters == SelectSeq(raw, isalpha)
        digits  == SelectSeq(raw, isdigit)
    IN  IF raw = <<>> THEN <<>>
        ELSE SubSeq(letters, 1, IF Len(letters) < 2 THEN Len(letters) ELSE 2) \o digits

clean_iban(raw0) ==
    LET raw == strip(raw0, Whitespace)
        letters == upper(SelectSeq(raw, isalpha))
        digits  == SelectSeq(raw, isdigit)
    IN  IF raw = <<>> THEN <<>>
        ELSE (IF Len(letters) >= 2 /\ SubSeq(letters, 1, 2) = <<"L", "T">>
              THEN <<"L", "T">>
              ELSE SubSeq(letters, 1, IF Len(letters) < 2 THEN Len(letters) ELSE 2))
             \o digits

\* the characters str.strip(" \t-,:;") removes
CommentStrip == {" ", "\t", "-", ",", ":", ";"}

trim_comment_leading(rest) == lstrip(rest, CommentStrip)

\* line 49: the text after the match, stripped
trim_comment(rest) == strip(rest, CommentStrip)

split_details_unguarded(details_raw) ==
    IF details_raw = None
    THEN [kind |-> "raise", exc |-> "TypeError"]
    ELSE LET m == IBAN_RE_search(details_raw)
         IN  IF m # NoMatch
             THEN [name    |-> join(<<" ">>, split(Slice(details_raw, 0, m.start))),
                   iban    |-> clean_iban(Slice(details_raw, m.start, m.end)),
                   comment |-> trim_comment(Slice(details_raw, m.end, Len(details_raw)))]
             ELSE LET parts == split(details_raw)
                      name  == IF Len(parts) >= 2
                               THEN join(<<" ">>, SubSeq(parts, 1, 2))
                               ELSE IF parts # <<>> THEN parts[1] ELSE <<>>
                  IN  [name    |-> name,
                       iban    |-> <<>>,
                       comment |-> strip(Slice(details_raw, Len(name), Len(details_raw)),
                                         Whitespace)]

split_details(details_raw) ==
    IF details_raw = None \/ details_raw = <<>>
    THEN [name |-> <<>>, iban |-> <<>>, comment |-> <<>>]
    ELSE LET m == IBAN_RE_search(details_raw)
         IN  IF m # NoMatch
             THEN [name    |-> join(<<" ">>, split(Slice(details_raw, 0, m.start))),
                   iban    |-> clean_iban(Slice(details_raw, m.start, m.end)),
                   comment |-> trim_comment(Slice(details_raw, m.end, Len(details_raw)))]
             ELSE LET parts == split(details_raw)
                      name  == IF Len(parts) >= 2
                               THEN join(<<" ">>, SubSeq(parts, 1, 2))
                               ELSE IF parts # <<>> THEN parts[1] ELSE <<>>
                  IN  [name    |-> name,
                       iban    |-> <<>>,
                       comment |-> strip(Slice(details_raw, Len(name), Len(details_raw)),
                                         Whitespace)]

-----------------------------------------------------------------------------
(* normalize: lower(), NFD, the marks of category Mn dropped, whitespace    *)
(* collapsed.  "S_CARON" and "s_caron" name U+0160 and U+0161, "CARON" the *)
(* combining caron U+030C, "TONE" the Hangul single dot tone mark U+302E,  *)
(* "VOWEL_U" the Devanagari vowel sign U+0941 and "STEM" the musical       *)
(* combining stem U+1D165.                                                 *)

\* str.lower() of one character
lower_char(ch) == IF ch = "S_CARON" THEN "s_caron" ELSE lower_ch(ch)

\* the canonical decomposition of one character
decomposition(ch) ==
    IF ch = "S_CARON" THEN <<"S", "CARON">>
    ELSE IF ch = "s_caron" THEN <<"s", "CARON">>
    ELSE <<ch>>

\* unicodedata.combining(ch): the canonical combining class
combining(ch) ==
    CASE ch = "CARON" -> 230
      [] ch = "TONE"  -> 224
      [] ch = "STEM"  -> 216
      [] OTHER        -> 0

\* unicodedata.category(ch) == "Mn"
IsMn(ch) == ch \in {"CARON", "VOWEL_U"}

RECURSIVE canonical_order(_)
\* the canonical ordering of NFD: among adjacent marks, the one of the lower
\* non-zero combining class goes first
canonical_order(s) ==
    LET swaps == {k \in 1..(Len(s) - 1) :
                     combining(s[k + 1]) > 0 /\ combining(s[k]) > combining(s[k + 1])}
    IN  IF swaps = {} THEN s
        ELSE LET k == Min(swaps)
             IN  canonical_order([j \in 1..Len(s) |->
                                     IF j = k THEN s[k + 1]
                                     ELSE IF j = k + 1 THEN s[k]
                                     ELSE s[j]])

\* unicodedata.normalize("NFD", s)
NFD(s) == canonical_order(Flatten([k \in 1..Len(s) |-> decomposition(s[k])]))

\* lines 30-34
normalize(s0) ==
    LET s1 == IF Falsy(s0) THEN <<>> ELSE [k \in 1..Len(s0) |-> lower_char(s0[k])]
        s2 == NFD(s1)
        s3 == SelectSeq(s2, LAMBDA ch : ~IsMn(ch))
    IN  join(<<" ">>, split(s3))

-----------------------------------------------------------------------------
(* float(): a decimal literal kept exactly, as sign, integer digits (no     *)
(* leading zeros) and fraction digits (no trailing zeros); nan and inf.    *)
(* The inputs of the model write no exponent and no underscore.            *)

ValueError == [kind |-> "ValueError"]

NaN == [kind |-> "nan"]

RECURSIVE DropLeadingZeros(_)
DropLeadingZeros(ds) ==
    IF ds # <<>> /\ Head(ds) = "0" THEN DropLeadingZeros(Tail(ds)) ELSE ds

RECURSIVE DropTrailingZeros(_)
DropTrailingZeros(ds) ==
    IF ds # <<>> /\ ds[Len(ds)] = "0"
    THEN DropTrailingZeros(SubSeq(ds, 1, Len(ds) - 1)) ELSE ds

Number(neg, int, frac) ==
    [kind |-> "num", neg |-> neg,
     int |-> DropLeadingZeros(int), frac |-> DropTrailingZeros(frac)]

float(s) ==
    LET t    == strip(s, Whitespace)
        neg  == t # <<>> /\ Head(t) = "-"
        body == IF t # <<>> /\ Head(t) \in {"+", "-"} THEN Tail(t) ELSE t
        dots == {k \in 1..Len(body) : body[k] = "."}
        dot  == IF dots = {} THEN Len(body) + 1 ELSE Min(dots)
        int  == SubSeq(body, 1, dot - 1)
        frac == SubSeq(body, dot + 1, Len(body))
    IN  IF lower(body) = <<"n", "a", "n">> THEN NaN
        ELSE IF lower(body) \in {<<"i", "n", "f">>,
                                 <<"i", "n", "f", "i", "n", "i", "t", "y">>}
        THEN [kind |-> "inf", neg |-> neg]
        ELSE IF /\ int \o frac # <<>>
                /\ \A k \in 1..Len(int) : int[k] \in Digits
                /\ \A k \in 1..Len(frac) : frac[k] \in Digits
        THEN Number(neg, int, frac)
        ELSE ValueError

IsZero(v) == v.kind = "num" /\ v.int = <<>> /\ v.frac = <<>>

\* v < 0 (False for nan)
LessThanZero(v) ==
    \/ v.kind = "num" /\ v.neg /\ ~IsZero(v)
    \/ v.kind = "inf" /\ v.neg

\* abs(v)
abs(v) == IF v.kind = "nan" THEN v ELSE [v EXCEPT !.neg = FALSE]

-----------------------------------------------------------------------------
(* XMLBankStatementParser: an Ntry element is a record of the children     *)
(* _process_entry reads.  A text field is Absent when find() returns None  *)
(* and None when the element is there and has no text.                     *)

Absent == <<"<absent>">>


\* the Ref texts of the Strd nodes, as lines 270-276 collect them
RECURSIVE StrdRefs(_)
StrdRefs(strd) ==
    IF strd = <<>> THEN <<>>
    ELSE (IF Head(strd) # Absent /\ ~Falsy(Head(strd)) THEN <<Head(strd)>> ELSE <<>>)
         \o StrdRefs(Tail(strd))

RemittanceDetails_first_ustrd(rmt) ==
    LET ustrd == IF rmt.Ustrd # <<>> /\ ~Falsy(rmt.Ustrd[1]) THEN rmt.Ustrd[1] ELSE <<>>
        refs  == StrdRefs(rmt.Strd)
    IN  IF ustrd # <<>> THEN ustrd
        ELSE IF refs # <<>> THEN join(<<" ">>, refs)
        ELSE ustrd

\* lines 261-283: details of a TxDtls whose RmtInf is rmt
RemittanceDetails(rmt) ==
    LET ustrd == IF rmt.Ustrd # <<>>
                 THEN join(<<" ">>, SelectSeq(rmt.Ustrd, LAMBDA t : ~Falsy(t)))
                 ELSE <<>>
        refs  == StrdRefs(rmt.Strd)
    IN  IF ustrd # <<>> THEN ustrd
        ELSE IF refs # <<>> THEN join(<<" ">>, refs)
        ELSE ustrd

Unknown == <<"U", "n", "k", "n", "o", "w", "n">>

DBIT == <<"D", "B", "I", "T">>

is_debit_by_sign(e) == LessThanZero(float(e.Amt))

\* lines 228-233: whether the entry's indicator, in upper case, is DBIT
is_debit(e) ==
    LET indicator == IF Falsy(e.CdtDbtInd) THEN e.CdtDbtInd ELSE upper(e.CdtDbtInd)
    IN  indicator = DBIT

\* _process_entry: <<row>>, or <<>> for None.  An optional child element
\* (TxDtls, RltdPties, RmtInf) is <<>> when absent and <<element>> when there.
process_entry(e) ==
    IF e.Dt = Absent THEN <<>>
    ELSE IF e.Amt = Absent THEN <<>>
    ELSE IF e.Amt = None THEN <<>>
    ELSE IF float(e.Amt) = ValueError THEN <<>>
    ELSE IF e.CdtDbtInd = Absent THEN <<>>
    ELSE IF is_debit(e) THEN <<>>
    ELSE LET tx      == e.TxDtls
             rltd    == IF tx = <<>> THEN <<>> ELSE tx[1].RltdPties
             rmt     == IF tx = <<>> THEN <<>> ELSE tx[1].RmtInf
             payer   == IF rltd # <<>> /\ rltd[1].Nm # Absent THEN rltd[1].Nm ELSE <<>>
             iban0   == IF rltd # <<>> /\ rltd[1].IBAN # Absent THEN rltd[1].IBAN ELSE <<>>
             details == IF rmt # <<>> THEN RemittanceDetails(rmt[1]) ELSE <<>>
             found   == split_details(details).iban
             iban    == IF Falsy(iban0) /\ ~Falsy(details) /\ ~Falsy(found)
                        THEN found ELSE iban0
         IN  << [date    |-> e.Dt,
                 payer   |-> IF Falsy(payer) THEN Unknown ELSE payer,
                 details |-> details,
                 amount  |-> abs(float(e.Amt)),
                 iban    |-> iban] >>

-----------------------------------------------------------------------------
(* ExcelBankStatementParser: a sheet is a grid, a sequence of rows of equal *)
(* length; a cell is a text, or None for an empty cell (pandas' NaN).  The  *)
(* column names are written without their diacritics.                      *)

\* lines 75-80: the keys are payer, details, amount and iban
COLUMN_MAP ==
    [payer   |-> <<"G", "a", "v", "e", "j", "a", "s", "/",
                   "M", "o", "k", "e", "t", "o", "j", "a", "s">>,
     details |-> <<"P", "a", "a", "i", "s", "k", "i", "n", "i", "m", "a", "i">>,
     amount  |-> <<"A", "p", "y", "v", "a", "r", "t", "a">>,
     iban    |-> <<"S", "a", "s", "k", "a", "i", "t", "a">>]

\* line 146
potential_iban_cols ==
    << <<"S", "a", "s", "k", "a", "i", "t", "a">>,
       <<"M", "o", "k", "e", "t", "o", "j", "o", " ",
         "s", "a", "s", "k", "a", "i", "t", "a">>,
       <<"I", "B", "A", "N">> >>

\* str(cell)
str(cell) == IF cell = None THEN <<"n", "a", "n">> ELSE cell

\* row.get(col, ''): the cell under the column named col
get(columns, cells, col) ==
    IF \E k \in 1..Len(columns) : columns[k] = col
    THEN cells[CHOOSE k \in 1..Len(columns) : columns[k] = col]
    ELSE <<>>

\* lines 90-93: the index of the first row with a cell equal to the date
\* column's name, 0 for none
header_row_index(rows) ==
    LET hits == {i \in 1..Len(rows) :
                    \E k \in 1..Len(rows[i]) :
                        strip(str(rows[i][k]), Whitespace) = COLUMN_MAP["date"]}
    IN  IF hits = {} THEN 0 ELSE Min(hits)

\* lines 144-152
row_iban(columns, cells) ==
    LET good == {j \in 1..Len(potential_iban_cols) :
                    /\ \E k \in 1..Len(columns) : columns[k] = potential_iban_cols[j]
                    /\ Len(strip(str(get(columns, cells, potential_iban_cols[j])),
                                 Whitespace)) > 10}
    IN  IF good = {} THEN <<>>
        ELSE strip(str(get(columns, cells, potential_iban_cols[Min(good)])), Whitespace)

\* _process_row: <<row>>, or <<>> for None
process_row(columns, cells) ==
    LET amount_str == strip(str(get(columns, cells, COLUMN_MAP["amount"])), Whitespace)
        cleaned == replace(replace(replace(amount_str, "+", <<>>), ",", <<".">>),
                           "MINUS", <<"-">>)
        amount  == float(cleaned)
        date    == strip(str(get(columns, cells, COLUMN_MAP["date"])), Whitespace)
    IN  IF amount_str = <<>> THEN <<>>
        ELSE IF amount = ValueError THEN <<>>
        ELSE IF LessThanZero(amount) THEN <<>>
        ELSE IF date = <<>> THEN <<>>
        ELSE << [date    |-> date,
                 payer   |-> strip(str(get(columns, cells, COLUMN_MAP["payer"])), Whitespace),
                 details |-> strip(str(get(columns, cells, COLUMN_MAP["details"])),
                                   Whitespace),
                 amount  |-> amount,
                 iban    |-> row_iban(columns, cells)] >>

RECURSIVE process_rows(_, _)
\* lines 105-111: the rows in order, an all-empty row passed over
process_rows(columns, rows) ==
    IF rows = <<>> THEN <<>>
    ELSE (IF \A k \in 1..Len(Head(rows)) : Head(rows)[k] = None
          THEN <<>>
          ELSE process_row(columns, Head(rows)))
         \o process_rows(columns, Tail(rows))

\* _validate_columns: the required columns the header lacks
missing_cols(columns) ==
    {COLUMN_MAP[key] : key \in {k \in DOMAIN COLUMN_MAP :
                                    \A j \in 1..Len(columns) : columns[j] # COLUMN_MAP[k]}}

\* ExcelBankStatementParser.parse: what it returns or raises.  The lookup
\* COLUMN_MAP['date'] of a key the map does not hold raises KeyError: at line
\* 91 on the first cell of the sheet, and at line 96 for a sheet with no cell.
excel_parse(c) ==
    IF c.fmt # "xlsx" THEN [kind |-> "raise", exc |-> "StatementParsingError"]
    ELSE IF "date" \notin DOMAIN COLUMN_MAP THEN [kind |-> "raise", exc |-> "KeyError"]
    ELSE LET h == header_row_index(c.rows)
         IN  IF h = 0 THEN [kind |-> "raise", exc |-> "StatementParsingError"]
             ELSE LET columns == [k \in 1..Len(c.rows[h]) |->
                                     strip(str(c.rows[h][k]), Whitespace)]
                  IN  IF missing_cols(columns) # {}
                      THEN [kind |-> "raise", exc |-> "MissingColumnsError"]
                      ELSE [kind |-> "return",
                            value |-> process_rows(columns,
                                                   SubSeq(c.rows, h + 1, Len(c.rows)))]

-----------------------------------------------------------------------------
(* SmartPDFParser *)

\* Python's s[a:b] for any 0 <= a, b: offsets past the end are cut to it
PySlice(s, a, b) ==
    LET n == Len(s)
    IN  SubSeq(s, (IF a > n THEN n ELSE a) + 1, IF b > n THEN n ELSE b)

\* (?<!\d)(\d{4}-\d{2}-\d{2})(?!\d) at offset a
DateMatchAt(s, a) ==
    /\ a + 10 <= Len(s)
    /\ \A k \in {1, 2, 3, 4, 6, 7, 9, 10} : s[a + k] \in Digits
    /\ s[a + 5] = "-"
    /\ s[a + 8] = "-"
    /\ a = 0 \/ s[a] \notin Digits
    /\ a + 10 = Len(s) \/ s[a + 11] \notin Digits

RECURSIVE AnchorsFrom(_, _)
\* lines 327-332: the (start, date) pairs of re.finditer, from offset a on
AnchorsFrom(s, a) ==
    IF a + 10 > Len(s) THEN <<>>
    ELSE IF DateMatchAt(s, a)
         THEN <<[start |-> a, date |-> Slice(s, a, a + 10)]>> \o AnchorsFrom(s, a + 10)
         ELSE AnchorsFrom(s, a + 1)

Signs == {"+", "MINUS", "-"}

DecimalMarks == {".", ","}

RECURSIVE RunEnd(_, _)
\* the offset where the greedy [\d\s]* that starts at offset p ends
RunEnd(s, p) ==
    IF p < Len(s) /\ s[p + 1] \in Digits \cup Whitespace THEN RunEnd(s, p + 1) ELSE p

\* amt_pattern = (?<![\d.,])([+−-]?)(\d[\d\s]*)[.,](\d{2})(?![\d.,]) at offset a:
\* the match's groups and span, or NoMatch.  [\d\s]* cannot give back what it
\* took (the next character must be [.,]), nor can the sign be left out.
AmtMatchAt(s, a) ==
    LET b == IF a < Len(s) /\ s[a + 1] \in Signs THEN a + 1 ELSE a
        r == RunEnd(s, b + 1)
    IN  IF /\ a = 0 \/ s[a] \notin Digits \cup DecimalMarks
           /\ b < Len(s)
           /\ s[b + 1] \in Digits
           /\ r + 3 <= Len(s)
           /\ s[r + 1] \in DecimalMarks
           /\ s[r + 2] \in Digits
           /\ s[r + 3] \in Digits
           /\ r + 3 = Len(s) \/ s[r + 4] \notin Digits \cup DecimalMarks
        THEN [start |-> a, end |-> r + 3, sign |-> Slice(s, a, b),
              integer_part |-> Slice(s, b, r), decimal_part |-> Slice(s, r + 1, r + 3)]
        ELSE NoMatch

\* amt_pattern.search(s): the leftmost match
amt_pattern_search(s) ==
    LET starts == {a \in 0..(Len(s) - 1) : AmtMatchAt(s, a) # NoMatch}
    IN  IF starts = {} THEN NoMatch ELSE AmtMatchAt(s, Min(starts))

\* lines 381-387: the string handed to float()
raw_float_str(m) ==
    replace(m.sign \o replace(replace(m.integer_part, " ", <<>>), "NBSP", <<>>)
                   \o <<".">> \o m.decimal_part,
            "MINUS", <<"-">>)

\* lines 414-425: the spans cut out one after the other, the later span first
remaining_text(t, m_amt, m_iban) ==
    LET cut(u, m) == PySlice(u, 0, m.start) \o <<" ">> \o PySlice(u, m.end, Len(u))
    IN  IF m_iban = NoMatch THEN cut(t, m_amt)
        ELSE IF m_iban.start > m_amt.start THEN cut(cut(t, m_iban), m_amt)
        ELSE cut(cut(t, m_amt), m_iban)

StatementEntry == <<"S", "t", "a", "t", "e", "m", "e", "n", "t", " ",
                    "E", "n", "t", "r", "y">>

NameAndComment_amount_kept(t, m_amt, m_iban) ==
    IF m_iban # NoMatch
    THEN LET name    == join(<<" ">>, split(Slice(t, 0, m_iban.start)))
             comment == join(<<" ">>, split(Slice(t, m_iban.end, Len(t))))
             again   == split_details(comment)
         IN  IF name = <<>> /\ comment # <<>> /\ again.name # <<>>
             THEN [name |-> again.name, comment |-> again.comment]
             ELSE [name |-> name, comment |-> comment]
    ELSE LET full_str == join(<<" ">>, split(remaining_text(t, m_amt, m_iban)))
             sd == split_details(full_str)
         IN  [name |-> sd.name, comment |-> sd.comment]

\* lines 440-483: final_name and final_comment
NameAndComment(t, m_amt, m_iban) ==
    IF m_iban # NoMatch
    THEN LET pre0  == Slice(t, 0, m_iban.start)
             pre   == IF m_amt.start < m_iban.start
                      THEN PySlice(pre0, 0, m_amt.start) \o <<" ">>
                           \o PySlice(pre0, m_amt.end, Len(pre0))
                      ELSE pre0
             name  == join(<<" ">>, split(pre))
             post0 == Slice(t, m_iban.end, Len(t))
             post  == IF m_amt.start > m_iban.end
                      THEN PySlice(post0, 0, m_amt.start - m_iban.end) \o <<" ">>
                           \o PySlice(post0, m_amt.end - m_iban.end, Len(post0))
                      ELSE post0
             comment == join(<<" ">>, split(post))
             again == split_details(comment)
         IN  IF name = <<>> /\ comment # <<>> /\ again.name # <<>>
             THEN [name |-> again.name, comment |-> again.comment]
             ELSE [name |-> name, comment |-> comment]
    ELSE LET full_str == join(<<" ">>, split(remaining_text(t, m_amt, m_iban)))
             sd == split_details(full_str)
         IN  [name |-> sd.name, comment |-> sd.comment]

\* _parse_block: <<row>>, or <<>> for None
parse_block(date_str, t) ==
    LET m_amt == amt_pattern_search(t)
    IN  IF m_amt = NoMatch THEN <<>>
        ELSE LET amount == float(raw_float_str(m_amt))
             IN  IF amount = ValueError THEN <<>>
                 ELSE IF LessThanZero(amount) THEN <<>>
                 ELSE LET m_iban == IBAN_RE_search(t)
                          nc == NameAndComment(t, m_amt, m_iban)
                      IN  << [date    |-> date_str,
                              payer   |-> IF nc.name # <<>> THEN nc.name ELSE StatementEntry,
                              details |-> nc.comment,
                              amount  |-> amount,
                              iban    |-> IF m_iban # NoMatch
                                          THEN clean_iban(Slice(t, m_iban.start, m_iban.end))
                                          ELSE <<>>] >>

\* lines 311-319: the text of the pages that have any, joined by line breaks
full_stream(pages) == join(<<"\n">>, SelectSeq(pages, LAMBDA t : ~Falsy(t)))

\* lines 338-353: the block of the i-th anchor, the date cut off and stripped
block_content(fs, anchs, i) ==
    LET end_idx == IF i < Len(anchs) THEN anchs[i + 1].start ELSE Len(fs)
        raw_block == Slice(fs, anchs[i].start, end_idx)
    IN  strip(Slice(raw_block, Len(anchs[i].date), Len(raw_block)), Whitespace)

-----------------------------------------------------------------------------
(* rebuild_index of src/app.py: the records of the index and their keys.   *)
(* A raw row is (row_no, date, price, details), its date, price and        *)
(* details strings as fetch_rows gives them.                               *)

\* hashlib.sha1(raw.encode("utf-8")).hexdigest()[:12], for the canonical
\* strings of the model's rows
sha1_hexdigest_12 ==
    <<
       <<<<"2", "0", "2", "5", "-", "1", "1", "-", "1", "3", "|", "1", "0", ".", "0",
         "0", "4", "9", "9", "9", "9", "|", "L", "T", "2", "3", "7", "0", "4", "4",
         "0", "6", "0", "0", "0", "7", "9", "8", "0", "1", "6", "5", "|", "x", "|",
         "J", "o">>, <<"d", "d", "f", "0", "f", "c", "2", "4", "7", "1", "4", "3">>>>,
       <<<<"2", "0", "2", "5", "-", "1", "1", "-", "1", "3", "|", "1", "0", ".", "0",
         "0", "4", "9", "9", "9", "9", "|", "|", "|">>, <<"8", "3", "a", "f", "e", "9",
         "3", "f", "3", "e", "f", "9">>>>,
       <<<<"2", "0", "2", "5", "-", "1", "1", "-", "1", "3", "|", "1", "0", ".", "0",
         "0", "|", "L", "T", "2", "3", "7", "0", "4", "4", "0", "6", "0", "0", "0",
         "7", "9", "8", "0", "1", "6", "5", "|", "x", "|", "J", "o">>, <<"e", "1", "2",
         "1", "1", "3", "e", "d", "c", "d", "1", "7">>>>,
       <<<<"2", "0", "2", "5", "-", "1", "1", "-", "1", "3", "|", "1", "0", ".", "0",
         "0", "|", "|", "|">>, <<"9", "c", "5", "4", "f", "f", "d", "4", "3", "1", "c",
         "4">>>>,
       <<<<"2", "0", "2", "5", "-", "1", "1", "-", "1", "3", "|", "1", "0", ".", "0",
         "1", "|", "L", "T", "2", "3", "7", "0", "4", "4", "0", "6", "0", "0", "0",
         "7", "9", "8", "0", "1", "6", "5", "|", "x", "|", "J", "o">>, <<"3", "3", "d",
         "b", "d", "d", "b", "1", "1", "6", "1", "6">>>>,
       <<<<"2", "0", "2", "5", "-", "1", "1", "-", "1", "3", "|", "1", "0", ".", "0",
         "1", "|", "|", "|">>, <<"5", "0", "5", "2", "6", "3", "4", "d", "0", "a", "7",
         "6">>>>,
       <<<<"2", "0", "2", "5", "-", "1", "1", "-", "1", "3", "|", "1", "0", "|", "L",
         "T", "2", "3", "7", "0", "4", "4", "0", "6", "0", "0", "0", "7", "9", "8",
         "0", "1", "6", "5", "|", "x", "|", "J", "o">>, <<"d", "8", "2", "6", "5", "0",
         "a", "f", "e", "a", "2", "9">>>>,
       <<<<"2", "0", "2", "5", "-", "1", "1", "-", "1", "3", "|", "1", "0", "|", "|",
         "|">>, <<"7", "9", "9", "5", "7", "b", "9", "4", "2", "b", "7", "d">>>>,
       <<<<"2", "0", "2", "5", "-", "1", "1", "-", "1", "3", "|", "|", "L", "T", "2",
         "3", "7", "0", "4", "4", "0", "6", "0", "0", "0", "7", "9", "8", "0", "1",
         "6", "5", "|", "x", "|", "J", "o">>, <<"7", "9", "0", "9", "2", "6", "3", "7",
         "a", "2", "e", "7">>>>,
       <<<<"2", "0", "2", "5", "-", "1", "1", "-", "1", "3", "|", "|", "|", "|">>,
         <<"7", "2", "e", "4", "e", "d", "7", "4", "e", "8", "d", "f">>>>,
       <<<<"|", "1", "0", ".", "0", "0", "4", "9", "9", "9", "9", "|", "L", "T", "2",
         "3", "7", "0", "4", "4", "0", "6", "0", "0", "0", "7", "9", "8", "0", "1",
         "6", "5", "|", "x", "|", "J", "o">>, <<"7", "6", "1", "b", "2", "4", "7", "1",
         "a", "b", "b", "3">>>>,
       <<<<"|", "1", "0", ".", "0", "0", "4", "9", "9", "9", "9", "|", "|", "|">>,
         <<"6", "a", "1", "5", "5", "7", "4", "1", "a", "d", "3", "3">>>>,
       <<<<"|", "1", "0", ".", "0", "0", "|", "L", "T", "2", "3", "7", "0", "4", "4",
         "0", "6", "0", "0", "0", "7", "9", "8", "0", "1", "6", "5", "|", "x", "|",
         "J", "o">>, <<"8", "a", "5", "8", "7", "f", "f", "5", "9", "e", "5", "5">>>>,
       <<<<"|", "1", "0", ".", "0", "0", "|", "|", "|">>, <<"1", "4", "b", "6", "e",
         "4", "7", "f", "f", "3", "3", "1">>>>,
       <<<<"|", "1", "0", ".", "0", "1", "|", "L", "T", "2", "3", "7", "0", "4", "4",
         "0", "6", "0", "0", "0", "7", "9", "8", "0", "1", "6", "5", "|", "x", "|",
         "J", "o">>, <<"0", "7", "c", "a", "6", "d", "6", "e", "7", "9", "6", "b">>>>,
       <<<<"|", "1", "0", ".", "0", "1", "|", "|", "|">>, <<"3", "9", "0", "4", "7",
         "0", "0", "9", "8", "1", "0", "e">>>>,
       <<<<"|", "1", "0", "|", "L", "T", "2", "3", "7", "0", "4", "4", "0", "6", "0",
         "0", "0", "7", "9", "8", "0", "1", "6", "5", "|", "x", "|", "J", "o">>, <<"1",
         "a", "1", "3", "1", "c", "9", "7", "d", "b", "d", "f">>>>,
       <<<<"|", "1", "0", "|", "|", "|">>, <<"8", "8", "3", "d", "c", "3", "8", "1",
         "a", "6", "2", "b">>>>,
       <<<<"|", "|", "L", "T", "2", "3", "7", "0", "4", "4", "0", "6", "0", "0", "0",
         "7", "9", "8", "0", "1", "6", "5", "|", "x", "|", "J", "o">>, <<"8", "b", "c",
         "6", "a", "4", "3", "c", "8", "b", "9", "c">>>>,
       <<<<"|", "|", "|", "|">>, <<"5", "0", "0", "f", "d", "c", "c", "0", "4", "9",
         "1", "c">>>>
    >>

\* line 535
sha1_key(raw) ==
    LET k == CHOOSE j \in 1..Len(sha1_hexdigest_12) : sha1_hexdigest_12[j][1] = raw
    IN  sha1_hexdigest_12[k][2]

\* x or ''
or_empty(x) == IF Falsy(x) THEN <<>> ELSE x

\* lines 532-535
row_key_from_values(date, price, iban, comment, name) ==
    sha1_key(join(<<"|">>, <<or_empty(date), or_empty(price), or_empty(iban),
                             or_empty(comment), or_empty(name)>>))

\* pd.to_datetime(date, errors='coerce').dt.date for a YYYY-MM-DD string:
\* <<the date>>, or <<>> for NaT
to_date(date) ==
    IF Len(date) = 10 /\ DateMatchAt(date, 0)
    THEN << [year |-> SubSeq(date, 1, 4), month |-> SubSeq(date, 6, 7),
             day |-> SubSeq(date, 9, 10)] >>
    ELSE <<>>

\* lines 540-549: the record of one raw row
index_record(r) ==
    LET t == split_details(r.details)
    IN  [date     |-> IF r.date = None THEN <<>> ELSE r.date,
         price    |-> IF r.price = None THEN <<>> ELSE r.price,
         name     |-> t.name,
         iban     |-> t.iban,
         comment  |-> t.comment,
         row_no   |-> r.row_no,
         name_norm |-> normalize(t.name),
         key      |-> row_key_from_values(or_empty(r.date), or_empty(r.price),
                                          t.iban, t.comment, t.name),
         date_obj |-> to_date(IF r.date = None THEN <<>> ELSE r.date)]

RECURSIVE sort_values_descending(_)
\* line 553: sort_values(by=['row_no'], ascending=[False])
sort_values_descending(recs) ==
    IF recs = <<>> THEN <<>>
    ELSE LET top == CHOOSE k \in 1..Len(recs) :
                        \A j \in 1..Len(recs) : recs[j].row_no <= recs[k].row_no
         IN  <<recs[top]>> \o
             sort_values_descending(SubSeq(recs, 1, top - 1) \o
                                    SubSeq(recs, top + 1, Len(recs)))

\* lines 537-554
rebuild_index(rows) ==
    sort_values_descending([k \in 1..Len(rows) |-> index_record(rows[k])])

-----------------------------------------------------------------------------
(* The Google Sheets cache of src/sheets_cache.py and fetch_rows of         *)
(* src/data_source.py.  A row is (row_no, date, price, details); its field  *)
(* py tells whether Python holds it as a tuple or as a list.               *)

\* src/sheets_cache.py, line 11
CACHE_DURATION == 300

\* CACHE_FILE.exists() is False
NoFile == [kind |-> "no file"]

\* a file json.loads() refuses
Unreadable == [kind |-> "no JSON"]

\* json.loads(json.dumps(rows)): a tuple comes back as a list
json_roundtrip(rows) == [k \in 1..Len(rows) |-> [rows[k] EXCEPT !.py = "list"]]

\* what get_cached_sheets returns when it returns None
NoRows == [kind |-> "None"]

get_cached_sheets_any_tab(file, spreadsheet_id, tab_name, now) ==
    IF file = NoFile THEN NoRows
    ELSE IF file = Unreadable THEN NoRows
    ELSE IF file.spreadsheet_id # spreadsheet_id THEN NoRows
    ELSE IF now - file.timestamp > CACHE_DURATION THEN NoRows
    ELSE [kind |-> "list", value |-> file.rows]

\* get_cached_sheets: the rows of the cache, or None
get_cached_sheets(file, spreadsheet_id, tab_name, now) ==
    IF file = NoFile THEN NoRows
    ELSE IF file = Unreadable THEN NoRows
    ELSE IF file.spreadsheet_id # spreadsheet_id THEN NoRows
    ELSE IF file.tab_name # tab_name THEN NoRows
    ELSE IF now - file.timestamp > CACHE_DURATION THEN NoRows
    ELSE [kind |-> "list", value |-> file.rows]

\* save_sheets_cache: the file it writes
save_sheets_cache(spreadsheet_id, tab_name, rows, now) ==
    [kind           |-> "JSON",
     spreadsheet_id |-> spreadsheet_id,
     tab_name       |-> tab_name,
     timestamp      |-> now,
     rows           |-> json_roundtrip(rows),
     row_count      |-> Len(rows)]

-----------------------------------------------------------------------------
(* The archive of src/db_manager.py.  The date column is TEXT and SQLite    *)
(* compares it with the cutoff byte by byte.  The calendar is the days     *)
(* from 2025-10-30 on, numbered from 0.                                    *)

\* the code point of a character of a date text
ord(ch) ==
    CASE ch = " " -> 32
      [] ch = "-" -> 45
      [] ch = "." -> 46
      [] ch = "/" -> 47
      [] ch \in Digits -> 48 + (CHOOSE d \in 0..9 : <<"0", "1", "2", "3", "4", "5", "6", "7", "8", "9">>[d + 1] = ch)
      [] ch = ":" -> 58
      [] OTHER -> 63

RECURSIVE text_less(_, _)
\* a < b for two values of TEXT (BINARY collation)
text_less(a, b) ==
    IF b = <<>> THEN FALSE
    ELSE IF a = <<>> THEN TRUE
    ELSE IF ord(Head(a)) # ord(Head(b)) THEN ord(Head(a)) < ord(Head(b))
    ELSE text_less(Tail(a), Tail(b))

\* time.strftime('%Y-%m-%d', time.localtime(...)) of the day numbered n
strftime(n) ==
    LET digit(d) == <<"0", "1", "2", "3", "4", "5", "6", "7", "8", "9">>[d + 1]
    IN  IF n <= 1
        THEN <<"2", "0", "2", "5", "-", "1", "0", "-", "3", digit(n)>>
        ELSE <<"2", "0", "2", "5", "-", "1", "1", "-", digit((n - 1) \div 10),
               digit((n - 1) % 10)>>

\* the key of the rows the UPDATE of lines 273-277 matches
archive_matches(tbl, cutoff_date) ==
    {k \in DOMAIN tbl : /\ tbl[k] # <<>>
                        /\ text_less(tbl[k][1].date, cutoff_date)
                        /\ tbl[k][1].archived = 0}

\* archive_old_transactions: the table after the UPDATE
archive_old_transactions(tbl, cutoff_date, now) ==
    [k \in DOMAIN tbl |->
        IF k \in archive_matches(tbl, cutoff_date)
        THEN << [tbl[k][1] EXCEPT !.archived = 1, !.updated_at = now] >>
        ELSE tbl[k]]

\* get_active_transactions: the keys of the rows WHERE archived = 0
get_active_transactions(tbl) ==
    {k \in DOMAIN tbl : tbl[k] # <<>> /\ tbl[k][1].archived = 0}

-----------------------------------------------------------------------------
(* FirebaseSync of src/firebase_sync.py.  A write is numbered by the order  *)
(* of its enqueue; a pending map holds, for a row key, the number of the   *)
(* write that is its entry, or 0 for no entry.                             *)

\* the row keys
RowKeys == {"k1", "k2"}

\* line 40: the three pending maps, empty
NoWrites == [kind \in {"status", "notes", "transactions"} |-> [k \in RowKeys |-> 0]]

\* the writes that are entries of the maps m
Entries(m) == {m[kind][k] : kind \in DOMAIN m, k \in RowKeys} \ {0}

\* the writes of one map
EntriesOf(m, kind) == {m[kind][k] : k \in RowKeys} \ {0}

\* self._pending_writes[kind][key] = value under the lock (lines 179, 200
\* and 232): the maps, the writes enqueued and the writes overwritten, after it
enqueue(st, kind, key, value) ==
    [pending  |-> [st.pending EXCEPT ![kind][key] = Len(st.accepted) + 1],
     accepted |-> Append(st.accepted, [kind |-> kind, key |-> key, value |-> value]),
     replaced |-> st.replaced \cup ({st.pending[kind][key]} \ {0})]

RECURSIVE update(_, _)
\* self._pending_writes['transactions'].update(transactions), line 232
update(st, keys) ==
    IF keys = <<>> THEN st
    ELSE update(enqueue(st, "transactions", Head(keys), "dict"), Tail(keys))

-----------------------------------------------------------------------------
(* BankStatementParser: the facade *)

Raise(exc) == [kind |-> "raise", exc |-> exc]

\* lines 61-67: StatementParsingError and its subclass
StatementParsingErrors == {"StatementParsingError", "MissingColumnsError"}

Return(value) == [kind |-> "return", value |-> value]

Pending == [kind |-> "none"]

\* os.path.splitext(p)[1]
splitext(p) ==
    LET seps == {k \in 1..Len(p) : p[k] = "/"}
        dots == {k \in 1..Len(p) : p[k] = "."}
        sep  == IF seps = {} THEN 0 ELSE CHOOSE k \in seps : \A j \in seps : j <= k
        dot  == IF dots = {} THEN 0 ELSE CHOOSE k \in dots : \A j \in dots : j <= k
    IN  IF dot > sep /\ \E k \in (sep + 1)..(dot - 1) : p[k] # "."
        THEN SubSeq(p, dot, Len(p))
        ELSE <<>>

PREKYB_ID == <<"P", "R", "E", "K", "Y", "B", ".", " ", "I", "D">>

TERM_SK == <<"T", "E", "R", "M", ".", " ", "S", "K", ".">>

ignore_on_either_marker(transaction) ==
    LET details == transaction.details
    IN  IF Falsy(details) THEN FALSE
        ELSE Contains(upper(details), PREKYB_ID) \/ Contains(upper(details), TERM_SK)

should_ignore_transaction(transaction) ==
    LET details == transaction.details
    IN  IF Falsy(details) THEN FALSE
        ELSE Contains(upper(details), PREKYB_ID) /\ Contains(upper(details), TERM_SK)

\* line 514: the transactions kept
Kept(ts) == SelectSeq(ts, LAMBDA t : ~should_ignore_transaction(t))

ExtractorForOrPdf(p) ==
    LET ext == lower(splitext(p))
    IN  IF ext \in {<<".", "x", "l", "s", "x">>, <<".", "x", "l", "s">>}
        THEN "ExcelBankStatementParser"
        ELSE IF ext = <<".", "x", "m", "l">> THEN "XMLBankStatementParser"
        ELSE "PDFBankStatementParser"

\* lines 502-511: the extractor the extension selects, "" for none
ExtractorFor(p) ==
    LET ext == lower(splitext(p))
    IN  IF ext \in {<<".", "x", "l", "s", "x">>, <<".", "x", "l", "s">>}
        THEN "ExcelBankStatementParser"
        ELSE IF ext = <<".", "x", "m", "l">> THEN "XMLBankStatementParser"
        ELSE IF ext = <<".", "p", "d", "f">> THEN "PDFBankStatementParser"
        ELSE ""

-----------------------------------------------------------------------------
(* Inputs of split_details: every text of at most MaxChunks chunks *)

\* sixteen digits, a space and a line break among them
Digits16 ==
        <<"2", "3", "7", "0", " ", "4", "4", "0", "6", "\n", "0", "0", "0",
          "7", "9", "8", "0", "1">>

SplitChunks ==
    { <<"J", "o">>,
      <<" ">>,
      <<"l", "T">>,
      Digits16,
      <<"6", "5", "4", "3">>,
      <<";", "-", "\t", "r", " ", " ", "x", ",", ":", " ">> }

RECURSIVE ChunkSeqs(_, _)
\* the concatenations of at most n chunks
ChunkSeqs(chunks, n) ==
    IF n = 0 THEN {<<>>}
    ELSE LET shorter == ChunkSeqs(chunks, n - 1)
         IN  shorter \cup {c \o t : c \in chunks, t \in shorter}

SplitInputs == {None} \cup ChunkSeqs(SplitChunks, MaxChunks)

-----------------------------------------------------------------------------
(* Inputs of normalize: every text of at most MaxChunks chunks *)

NormalizeChunks ==
    { <<"J", "O">>,
      <<" ", "\t", " ">>,
      <<"S_CARON">>,
      <<"s", "CARON">>,
      <<"TONE">>,
      <<"VOWEL_U">>,
      <<"STEM">> }

NormalizeInputs == {None} \cup ChunkSeqs(NormalizeChunks, MaxChunks)

-----------------------------------------------------------------------------
(* Inputs of parse: a path, the file behind it, and whether pypdf imports *)

Paths ==
    { <<"a", ".", "x", "l", "s", "x">>,
      <<"b", ".", "X", "L", "S">>,
      <<"c", ".", "x", "m", "l">>,
      <<"d", ".", "P", "d", "f">>,
      <<"e", ".", "d", "o", "c", "x">>,
      <<".", "p", "d", "f">>,
      <<"f", ".", "p", "d", "f", "/", "g">>,
      <<"h">> }

GoodDate ==
        <<"2", "0", "2", "5", "-", "1", "1", "-", "1", "3">>

IbanText ==
        <<"L", "T", "2", "3", "7", "0", "4", "4", "0", "6", "0", "0", "0",
          "7", "9", "8", "0", "1", "6", "5">>

NtryDates == {Absent, None, GoodDate}

NtryAmounts == {Absent, None, <<"a", "b", "c">>, <<"5", ".", "0", "0">>,
                <<"-", "5", ".", "0", "0">>, <<"n", "a", "n">>}

NtryIndicators == {Absent, None, DBIT, <<"d", "b", "i", "t">>, <<"C", "R", "D", "T">>}

\* the TxDtls elements
TxDtlsOptions ==
    { \* the two markers, one in each of two Ustrd nodes
      [RltdPties |-> <<[Nm |-> <<"J", "o">>, IBAN |-> Absent]>>,
       RmtInf |-> <<[Ustrd |-> <<<<"P", "r", "e", "k", "y", "b", ".", " ", "I", "D",
                         " ", "7">>,
                                <<"t", "e", "r", "m", ".", " ", "s", "k", ".", " ",
                         "1">>>>,
                    Strd |-> <<>>]>>],
      \* one marker; a debtor with no name text and an IBAN node
      [RltdPties |-> <<[Nm |-> None, IBAN |-> IbanText]>>,
       RmtInf |-> <<[Ustrd |-> <<<<"T", "E", "R", "M", ".", " ", "S", "K", ".", " ",
                         "1">>>>,
                    Strd |-> <<>>]>>],
      \* no Ustrd text; structured references
      [RltdPties |-> <<>>,
       RmtInf |-> <<[Ustrd |-> <<None>>,
                    Strd |-> <<<<"3", "0", "4", "6", "1", "5", "4", "3", "5">>, Absent, <<"7">>>>]>>],
      \* an IBAN in the remittance text only
      [RltdPties |-> <<[Nm |-> Absent, IBAN |-> None]>>,
       RmtInf |-> <<[Ustrd |-> <<<<"J", "o", " ", "l", "T", "2", "3", "7", "0", " ",
                         "4", "4", "0", "6", "\n", "0", "0", "0", "7", "9",
                         "8", "0", "1", " ", "x">>>>,
                    Strd |-> <<>>]>>],
      \* a TxDtls with neither related parties nor remittance information
      [RltdPties |-> <<>>,
       RmtInf |-> <<>>],
      \* no Ustrd node; one structured reference
      [RltdPties |-> <<[Nm |-> <<"J", "o">>, IBAN |-> Absent]>>,
       RmtInf |-> <<[Ustrd |-> <<>>,
                    Strd |-> <<<<"3", "0", "4", "6", "1", "5", "4", "3", "5">>>>]>>],
      \* three Ustrd nodes, the second without text, and a structured reference
      [RltdPties |-> <<[Nm |-> <<"J", "o">>, IBAN |-> Absent]>>,
       RmtInf |-> <<[Ustrd |-> <<<<"u", "z", "s">>, None, <<"n", "r", " ", "3">>>>,
                    Strd |-> <<<<"7">>>>]>>] }

\* the Ntry elements a document may hold: every date, amount and indicator
\* without TxDtls, and every TxDtls on a dated entry of 5.00
NtryElements ==
    {[Dt |-> dt, Amt |-> am, CdtDbtInd |-> ind, TxDtls |-> <<>>] :
        dt \in NtryDates, am \in NtryAmounts, ind \in NtryIndicators}
    \cup
    {[Dt |-> GoodDate, Amt |-> <<"5", ".", "0", "0">>, CdtDbtInd |-> ind, TxDtls |-> <<tx>>] :
        ind \in {DBIT, <<"C", "R", "D", "T">>}, tx \in TxDtlsOptions}

\* what extract_text() gives for a page; None for a page without text
PageTexts ==
    { None,
      \* the statement of the end-to-end test: a credit whose name wraps, a debit
      <<"2", "0", "2", "5", "-", "1", "1", "-", "1", "3", " ", "+", "9", "8",
      ".", "0", "0", " ", "O", "N", "A", "\n", "J", "O", " ", "L", "T",
      "2", "3", "7", "0", "4", "4", "0", "6", "0", "0", "0", "7", "9", "8",
      "0", "1", "6", "5", " ", "u", "z", "s", ".", "3", "\n", "2", "0",
      "2", "5", "-", "1", "1", "-", "0", "1", " ", "-", "1", "0", ".", "0",
      "0", " ", "O", "U", "T">>,
      \* no date
      <<"I", "s", "r", "a", "s", "a", "s", " ", "1">>,
      \* the name after the IBAN, the IBAN in lower case and spaced
      <<"2", "0", "2", "5", "-", "1", "1", "-", "0", "2", " ", "5", ",", "0",
      "0", " ", "l", "t", "2", "3", " ", "7", "0", "4", "4", " ", "0", "6",
      "0", "0", " ", "0", "7", "9", "8", "\n", "0", "1", "6", "5", " ",
      "O", "n", "a", " ", "J", "o", " ", "r", "e", "f", " ", "7">>,
      \* the amount between the letters LT with 8 digits and 8 more digits
      <<"2", "0", "2", "5", "-", "1", "1", "-", "0", "3", " ", "L", "T", "2",
      "3", "7", "0", "4", "4", "0", "6", " ", "+", "5", ".", "0", "0", " ",
      "0", "0", "0", "7", "9", "8", "0", "1", " ", "L", "T", "2", "3", "7",
      "0", "4", "4", "0", "6", "0", "0", "0", "7", "9", "8", "0", "1", "6",
      "5", " ", "x">>,
      \* a number right after the IBAN
      <<"2", "0", "2", "5", "-", "1", "1", "-", "0", "4", " ", "J", "o", " ",
      "L", "T", "2", "3", "7", "0", "4", "4", "0", "6", "0", "0", "0", "7",
      "9", "8", "0", "1", "6", "5", " ", "1", "2", ".", "5", "0">>,
      \* both markers after the name
      <<"2", "0", "2", "5", "-", "1", "1", "-", "0", "5", " ", "7", ".", "0",
      "0", " ", "O", "n", "a", " ", "J", "o", " ", "p", "r", "e", "k", "y",
      "b", ".", " ", "i", "d", " ", "1", " ", "T", "e", "r", "m", ".", " ",
      "S", "k", ".", " ", "2">>,
      \* no amount; then a block with a second IBAN between the IBAN and the name
      <<"2", "0", "2", "5", "-", "1", "1", "-", "0", "6", " ", "J", "o", "\n", "2",
      "0", "2", "5", "-", "1", "1", "-", "0", "9", " ", "5", ",", "0", "0", " ", "L",
      "T", "2", "3", "7", "0", "4", "4", "0", "6", "0", "0", "0", "7", "9", "8", "0",
      "1", "6", "5", " ", "l", "t", "2", "3", "7", "0", "4", "4", "0", "6", "0", "0",
      "0", "7", "9", "8", "0", "1", "6", "5", " ", "O", "n", "a", " ", "J", "o">>,
      \* a line break inside the digit group of the amount
      <<"2", "0", "2", "5", "-", "1", "1", "-", "0", "7", " ", "J", "o", " ", "7",
      "\n", "1", "2", ".", "5", "0">>,
      \* the amount after the IBAN, the name on two lines
      <<"2", "0", "2", "5", "-", "1", "1", "-", "0", "8", " ", "O", "n", "a", "\n",
      "J", "o", " ", "L", "T", "2", "3", "7", "0", "4", "4", "0", "6", "0", "0",
      "0", "7", "9", "8", "0", "1", "6", "5", " ", "r", "e", "f", " ", "3", ".",
      "0", "0", " ", "x">> }

RECURSIVE SeqsUpTo(_, _)
\* the sequences of at most n elements of S
SeqsUpTo(S, n) ==
    IF n = 0 THEN {<<>>}
    ELSE LET shorter == SeqsUpTo(S, n - 1)
         IN  shorter \cup {<<x>> \o t : x \in S, t \in shorter}

\* the sheets read_excel() may give
Sheets ==
    { \* an empty sheet
      <<>>,
      \* a title row, the header row, a credit, an empty row, a debit
      << <<<<"S", "u", "v", "e", "s", "t", "i", "n", "e">>,
            None,
            None,
            None,
            None>>,
          <<<<"D", "a", "t", "a">>,
            <<"G", "a", "v", "e", "j", "a", "s", "/", "M", "o", "k", "e", "t",
                   "o", "j", "a", "s">>,
            <<"P", "a", "a", "i", "s", "k", "i", "n", "i", "m", "a", "i">>,
            <<"A", "p", "y", "v", "a", "r", "t", "a">>,
            <<"S", "a", "s", "k", "a", "i", "t", "a">>>>,
          <<<<"2", "0", "2", "5", "-", "1", "1", "-", "1", "3">>,
            <<"J", "o">>,
            <<"x">>,
            <<"5", ",", "0", "0">>,
            <<"L", "T", "2", "3", "7", "0", "4", "4", "0", "6", "0", "0", "0",
                   "7", "9", "8", "0", "1", "6", "5">>>>,
          <<None,
            None,
            None,
            None,
            None>>,
          <<<<"2", "0", "2", "5", "-", "1", "1", "-", "1", "3">>,
            <<"J", "o">>,
            <<"x">>,
            <<"-", "3", ".", "0", "0">>,
            None>> >>,
      \* no header row
      << <<<<"2", "0", "2", "5", "-", "1", "1", "-", "1", "3">>,
            <<"J", "o">>,
            <<"x">>,
            <<"5", ",", "0", "0">>>> >>,
      \* a header row without the payer and amount columns
      << <<<<"D", "a", "t", "a">>,
            <<"P", "a", "a", "i", "s", "k", "i", "n", "i", "m", "a", "i">>,
            <<"S", "a", "s", "k", "a", "i", "t", "a">>>>,
          <<<<"2", "0", "2", "5", "-", "1", "1", "-", "1", "3">>,
            <<"x">>,
            None>> >>,
      \* the header row, a credit with its thousands set apart by a space, a
      \* credit with the currency after the amount
      << <<<<"D", "a", "t", "a">>,
            <<"G", "a", "v", "e", "j", "a", "s", "/", "M", "o", "k", "e", "t", "o", "j", "a", "s">>,
            <<"P", "a", "a", "i", "s", "k", "i", "n", "i", "m", "a", "i">>,
            <<"A", "p", "y", "v", "a", "r", "t", "a">>,
            <<"S", "a", "s", "k", "a", "i", "t", "a">>>>,
          <<<<"2", "0", "2", "5", "-", "1", "1", "-", "1", "3">>,
            <<"J", "o">>,
            <<"x">>,
            <<"1", " ", "2", "3", "4", ",", "5", "6">>,
            None>>,
          <<<<"2", "0", "2", "5", "-", "1", "1", "-", "1", "3">>,
            <<"O", "n", "a">>,
            <<"x">>,
            <<"1", "2", ",", "5", "0", " ", "E", "U", "R">>,
            None>> >> }

Contents ==
    {[fmt |-> "unreadable", pages |-> <<>>, rows |-> <<>>],
     [fmt |-> "xml", pages |-> <<>>, rows |-> <<>>]}
    \cup {[fmt |-> "pdf", pages |-> ps, rows |-> <<>>] : ps \in SeqsUpTo(PageTexts, MaxPages)}
    \cup {[fmt |-> "xlsx", pages |-> <<>>, rows |-> sh] : sh \in Sheets}

-----------------------------------------------------------------------------
(* Inputs of rebuild_index: 1 to MaxRows raw rows, numbered from 1 *)

RowDates == {GoodDate, <<>>}

RowPrices == { <<"1", "0">>, <<"1", "0", ".", "0", "0">>,
               <<"1", "0", ".", "0", "0", "4", "9", "9", "9", "9">>,
               <<"1", "0", ".", "0", "1">>, <<>> }

RowDetails == { <<"J", "o", " ">> \o IbanText \o <<" ", "x">>, <<>> }

RawRows ==
    {[k \in 1..Len(cells) |->
         [row_no |-> k, date |-> cells[k][1], price |-> cells[k][2],
          details |-> cells[k][3]]] :
        cells \in SeqsUpTo(RowDates \X RowPrices \X RowDetails, MaxRows) \ {<<>>}}

\* the configurations: two sheets, a second tab, no spreadsheet_id, no
\* credentials_path
Cfgs ==
    { [spreadsheet_id |-> <<"s", "1">>, tab_name |-> <<"S", "h", "e", "e", "t", "1">>,
       credentials_path |-> <<"c">>],
      [spreadsheet_id |-> <<"s", "1">>, tab_name |-> <<"T", "2">>,
       credentials_path |-> <<"c">>],
      [spreadsheet_id |-> <<"s", "2">>, tab_name |-> <<"S", "h", "e", "e", "t", "1">>,
       credentials_path |-> <<"c">>],
      [spreadsheet_id |-> <<>>, tab_name |-> <<"S", "h", "e", "e", "t", "1">>,
       credentials_path |-> <<"c">>],
      [spreadsheet_id |-> <<"s", "1">>, tab_name |-> <<"S", "h", "e", "e", "t", "1">>,
       credentials_path |-> <<>>] }

\* what fetch_rows_from_sheets returns: no row, or one row
SheetRows ==
    { <<>>,
      << [py |-> "tuple", row_no |-> 1, date |-> GoodDate,
          price |-> <<"1", "0">>, details |-> <<"J", "o">>] >> }

\* most moves of the clock
MaxTicks == 2
\* most calls of fetch_rows
MaxCalls == 2

\* the keys of the transactions table
Keys == {"tx1", "tx2"}

\* the dates a row may hold: what the sheet's date cell held
DbDates ==
    { <<"2", "0", "2", "5", "-", "1", "0", "-", "3", "0">>,
      <<"2", "0", "2", "5", "-", "1", "1", "-", "0", "1">>,
      <<"2", "0", "2", "5", "-", "1", "1", "-", "0", "2">>,
      <<"0", "2", ".", "1", "1", ".", "2", "0", "2", "5">>,
      <<>> }

\* the last day of the calendar
MaxDay == 3

\* the arguments of archive_old_transactions
DaysArgs == {0, 1, 2}

\* most calls of archive_old_transactions
MaxArchives == 2

\* most writes enqueued
MaxWrites == 2
\* most threads of _poll_changes started
MaxThreads == 2
\* most failures counted in a row
MaxErrors == 2

-----------------------------------------------------------------------------
(* The calls: split_details(text), and BankStatementParser().parse(path)    *)

NoTriple == [name |-> None, iban |-> None, comment |-> None]

NoContent == [fmt |-> "none", pages |-> <<>>, rows |-> <<>>]

InitSplit ==
    /\ op = "split_details"
    /\ raw_rows = <<>>
    /\ text \in SplitInputs
    /\ path = <<>>
    /\ content = NoContent
    /\ PYPDF_AVAILABLE = TRUE

InitNormalize ==
    /\ op = "normalize"
    /\ raw_rows = <<>>
    /\ text \in NormalizeInputs
    /\ path = <<>>
    /\ content = NoContent
    /\ PYPDF_AVAILABLE = TRUE

InitRebuild ==
    /\ op = "rebuild_index"
    /\ raw_rows \in RawRows
    /\ text = None
    /\ path = <<>>
    /\ content = NoContent
    /\ PYPDF_AVAILABLE = TRUE

InitParse ==
    /\ op = "parse"
    /\ raw_rows = <<>>
    /\ text = None
    /\ path \in Paths
    /\ content \in Contents
    /\ PYPDF_AVAILABLE \in BOOLEAN

\* no call of fetch_rows: the cache as a first start finds it
CacheIdle ==
    /\ cfg = [spreadsheet_id |-> <<>>, tab_name |-> <<>>, credentials_path |-> <<>>]
    /\ worksheet = <<>>

\* no database
DbIdle ==
    /\ table = [k \in Keys |-> <<>>]
    /\ today = 0

\* no parsing call
ParseIdle ==
    /\ raw_rows = <<>>
    /\ text = None
    /\ path = <<>>
    /\ content = NoContent
    /\ PYPDF_AVAILABLE = TRUE

InitFetch ==
    /\ op = "fetch_rows"
    /\ cfg \in Cfgs
    /\ worksheet \in SheetRows

\* DatabaseManager.__init__: the schema is created, the table has no row
InitArchive ==
    /\ op = "archive"
    /\ table = [k \in Keys |-> <<>>]
    /\ today \in {n \in 0..MaxDay : \A d \in DaysArgs : d <= n}

\* FirebaseSync.__init__, lines 31-58: the connection is tested, and the
\* write thread started when the test succeeds
InitSync ==
    /\ op \in {"writes", "listener"}
    /\ connected \in BOOLEAN
    /\ write_running = connected
    /\ loop_pc = IF connected THEN "while" ELSE "none"

Init ==
    /\ \/ /\ \/ (InitSplit \/ InitNormalize \/ InitRebuild \/ InitParse)
                   /\ CacheIdle /\ DbIdle
             \/ InitFetch /\ ParseIdle /\ DbIdle
             \/ InitArchive /\ ParseIdle /\ CacheIdle
          /\ connected = FALSE
          /\ write_running = FALSE
          /\ loop_pc = "none"
       \/ InitSync /\ ParseIdle /\ CacheIdle /\ DbIdle
    /\ lock = "free"
    /\ pending_writes = NoWrites
    /\ snapshot = NoWrites
    /\ accepted = <<>>
    /\ sent = {}
    /\ copies = [w \in 1..MaxWrites |-> 0]
    /\ replaced = {}
    /\ local_cache = [kind \in DOMAIN NoWrites |-> {}]
    /\ connection_error_count = 0
    /\ listener_running = FALSE
    /\ pollers = <<>>
    /\ delivered = {}
    /\ callback_after_stop = FALSE
    /\ clock = 0
    /\ ticks = 0
    /\ CACHE_FILE = NoFile
    /\ calls = 0
    /\ fetched = FALSE
    /\ days = 0
    /\ rowcount = 0
    /\ active = {}
    /\ archive_calls = 0
    /\ df = <<>>
    /\ triple = NoTriple
    /\ pc = "call"
    /\ invoked = {}
    /\ opened = FALSE
    /\ ntry = <<>>
    /\ row = <<>>
    /\ transactions = <<>>
    /\ stream = <<>>
    /\ anchors = <<>>
    /\ idx = 0
    /\ result = Pending

SplitDetails ==
    /\ op = "split_details"
    /\ pc = "call"
    /\ triple' = split_details(text)
    /\ pc' = "done"
    /\ UNCHANGED <<raw_rows, df>>
    /\ UNCHANGED <<cache_vars, db_vars, sync_vars>>
    /\ UNCHANGED <<op, text, path, content, PYPDF_AVAILABLE, invoked, opened, ntry, row,
                   transactions, stream, anchors, idx, result>>

\* normalize(text), and then normalize of what it returned
Normalize ==
    /\ op = "normalize"
    /\ pc \in {"call", "once"}
    /\ result' = Return(normalize(IF pc = "call" THEN text ELSE result.value))
    /\ pc' = IF pc = "call" THEN "once" ELSE "done"
    /\ UNCHANGED <<raw_rows, df>>
    /\ UNCHANGED <<cache_vars, db_vars, sync_vars>>
    /\ UNCHANGED <<op, text, triple, path, content, PYPDF_AVAILABLE, invoked, opened, ntry,
                   row, transactions, stream, anchors, idx>>

\* rebuild_index(raw_rows) of src/app.py
RebuildIndex ==
    /\ op = "rebuild_index"
    /\ pc = "call"
    /\ df' = rebuild_index(raw_rows)
    /\ pc' = "done"
    /\ UNCHANGED <<cache_vars, db_vars, sync_vars>>
    /\ UNCHANGED <<op, text, triple, path, content, PYPDF_AVAILABLE, invoked, opened, ntry,
                   row, transactions, stream, anchors, idx, result, raw_rows>>

\* lines 502-511: the extractor is chosen, or the extension refused
Dispatch ==
    /\ op = "parse"
    /\ pc = "call"
    /\ IF ExtractorFor(path) = ""
       THEN /\ result' = Raise("StatementParsingError")
            /\ pc' = "done"
            /\ invoked' = invoked
       ELSE /\ invoked' = invoked \cup {ExtractorFor(path)}
            /\ pc' = ExtractorFor(path)
            /\ result' = result
    /\ UNCHANGED <<raw_rows, df>>
    /\ UNCHANGED <<cache_vars, db_vars, sync_vars>>
    /\ UNCHANGED <<op, text, triple, path, content, PYPDF_AVAILABLE, opened, ntry, row,
                   transactions, stream, anchors, idx>>

\* ExcelBankStatementParser.parse
ExcelParse ==
    /\ pc = "ExcelBankStatementParser"
    /\ opened' = TRUE
    /\ LET o == excel_parse(content)
       IN  IF o.kind = "raise"
           THEN /\ result' = Raise(o.exc)
                /\ pc' = "done"
                /\ transactions' = transactions
           ELSE /\ transactions' = o.value
                /\ pc' = "filter"
                /\ result' = result
    /\ UNCHANGED <<raw_rows, df>>
    /\ UNCHANGED <<cache_vars, db_vars, sync_vars>>
    /\ UNCHANGED <<op, text, triple, path, content, PYPDF_AVAILABLE, invoked, ntry, row,
                   stream, anchors, idx>>

\* lines 175-187: the document is parsed and its Ntry elements found
XmlOpen ==
    /\ pc = "XMLBankStatementParser"
    /\ opened' = TRUE
    /\ IF content.fmt # "xml"
       THEN /\ result' = Raise("StatementParsingError")
            /\ pc' = "done"
       ELSE /\ pc' = "ntry_loop"
            /\ result' = result
    /\ UNCHANGED <<raw_rows, df>>
    /\ UNCHANGED <<cache_vars, db_vars, sync_vars>>
    /\ UNCHANGED <<op, text, triple, path, content, PYPDF_AVAILABLE, invoked, ntry, row,
                   transactions, stream, anchors, idx>>

XmlEntry_raises_on_bad_entry ==
    /\ pc = "ntry_loop"
    /\ idx < MaxEntries
    /\ \E e \in NtryElements :
          /\ ntry' = <<e>>
          /\ row' = process_entry(e)
          /\ IF e.Dt = Absent \/ e.Amt \in {Absent, None} \/ float(e.Amt) = ValueError
             THEN /\ transactions' = transactions
                  /\ result' = Raise("StatementParsingError")
                  /\ pc' = "done"
             ELSE /\ transactions' = transactions \o process_entry(e)
                  /\ UNCHANGED <<pc, result>>
    /\ idx' = idx + 1
    /\ UNCHANGED <<raw_rows, df>>
    /\ UNCHANGED <<cache_vars, db_vars, sync_vars>>
    /\ UNCHANGED <<op, text, triple, path, content, PYPDF_AVAILABLE, invoked, opened,
                   stream, anchors>>

\* lines 192-198: one more Ntry element of the document
XmlEntry ==
    /\ pc = "ntry_loop"
    /\ idx < MaxEntries
    /\ \E e \in NtryElements :
          /\ ntry' = <<e>>
          /\ row' = process_entry(e)
          /\ transactions' = transactions \o process_entry(e)
    /\ idx' = idx + 1
    /\ UNCHANGED <<raw_rows, df>>
    /\ UNCHANGED <<cache_vars, db_vars, sync_vars>>
    /\ UNCHANGED <<op, text, triple, path, content, PYPDF_AVAILABLE, pc, invoked, opened,
                   stream, anchors, result>>

XmlEnd_returns_always ==
    /\ pc = "ntry_loop"
    /\ pc' = "filter"
    /\ ntry' = <<>>
    /\ row' = <<>>
    /\ UNCHANGED <<raw_rows, df>>
    /\ UNCHANGED <<cache_vars, db_vars, sync_vars>>
    /\ UNCHANGED <<op, text, triple, path, content, PYPDF_AVAILABLE, invoked, opened,
                   transactions, stream, anchors, idx, result>>

\* lines 200-203: the document has no more Ntry elements
XmlEnd ==
    /\ pc = "ntry_loop"
    /\ IF transactions = <<>> /\ idx = 0
       THEN /\ result' = Raise("StatementParsingError")
            /\ pc' = "done"
       ELSE /\ pc' = "filter"
            /\ result' = result
    /\ ntry' = <<>>
    /\ row' = <<>>
    /\ UNCHANGED <<raw_rows, df>>
    /\ UNCHANGED <<cache_vars, db_vars, sync_vars>>
    /\ UNCHANGED <<op, text, triple, path, content, PYPDF_AVAILABLE, invoked, opened,
                   transactions, stream, anchors, idx>>

\* lines 306-335: the pages are read and the date anchors found
PdfOpen ==
    /\ pc = "PDFBankStatementParser"
    /\ IF ~PYPDF_AVAILABLE
       THEN /\ result' = Raise("StatementParsingError")
            /\ pc' = "done"
            /\ UNCHANGED <<opened, stream, anchors>>
       ELSE /\ opened' = TRUE
            /\ IF content.fmt # "pdf"
               THEN /\ result' = Raise("StatementParsingError")
                    /\ pc' = "done"
                    /\ UNCHANGED <<stream, anchors>>
               ELSE /\ stream' = full_stream(content.pages)
                    /\ anchors' = AnchorsFrom(full_stream(content.pages), 0)
                    /\ IF AnchorsFrom(full_stream(content.pages), 0) = <<>>
                       THEN /\ result' = Raise("StatementParsingError")
                            /\ pc' = "done"
                       ELSE /\ pc' = "block_loop"
                            /\ result' = result
    /\ UNCHANGED <<raw_rows, df>>
    /\ UNCHANGED <<cache_vars, db_vars, sync_vars>>
    /\ UNCHANGED <<op, text, triple, path, content, PYPDF_AVAILABLE, invoked, ntry, row,
                   transactions, idx>>

\* lines 338-357: the block of the next anchor
PdfBlock ==
    /\ pc = "block_loop"
    /\ idx < Len(anchors)
    /\ idx' = idx + 1
    /\ row' = parse_block(anchors[idx + 1].date, block_content(stream, anchors, idx + 1))
    /\ transactions' = transactions \o row'
    /\ UNCHANGED <<raw_rows, df>>
    /\ UNCHANGED <<cache_vars, db_vars, sync_vars>>
    /\ UNCHANGED <<op, text, triple, path, content, PYPDF_AVAILABLE, pc, invoked, opened,
                   ntry, stream, anchors, result>>

\* line 359
PdfEnd ==
    /\ pc = "block_loop"
    /\ idx = Len(anchors)
    /\ pc' = "filter"
    /\ row' = <<>>
    /\ UNCHANGED <<raw_rows, df>>
    /\ UNCHANGED <<cache_vars, db_vars, sync_vars>>
    /\ UNCHANGED <<op, text, triple, path, content, PYPDF_AVAILABLE, invoked, opened, ntry,
                   transactions, stream, anchors, idx, result>>

\* line 514: the facade filters what the extractor returned
FacadeReturn ==
    /\ pc = "filter"
    /\ result' = Return(Kept(transactions))
    /\ pc' = "done"
    /\ UNCHANGED <<raw_rows, df>>
    /\ UNCHANGED <<cache_vars, db_vars, sync_vars>>
    /\ UNCHANGED <<op, text, triple, path, content, PYPDF_AVAILABLE, invoked, opened, ntry,
                   row, transactions, stream, anchors, idx>>

\* fetch_rows(cfg) for a Google Sheets source, lines 228-255 of
\* src/data_source.py; the request to Google Sheets may fail
FetchRows ==
    /\ op = "fetch_rows"
    /\ calls < MaxCalls
    /\ calls' = calls + 1
    /\ IF cfg.spreadsheet_id = <<>> \/ cfg.credentials_path = <<>>
       THEN /\ result' = Raise("ValueError")
            /\ fetched' = FALSE
            /\ CACHE_FILE' = CACHE_FILE
       ELSE LET cached == get_cached_sheets(CACHE_FILE, cfg.spreadsheet_id, cfg.tab_name,
                                            clock)
            IN  IF cached # NoRows
                THEN /\ result' = Return(cached.value)
                     /\ fetched' = FALSE
                     /\ CACHE_FILE' = CACHE_FILE
                ELSE /\ fetched' = TRUE
                     /\ \/ /\ result' = Return(worksheet)
                           /\ CACHE_FILE' = save_sheets_cache(cfg.spreadsheet_id,
                                                              cfg.tab_name, worksheet, clock)
                        \/ /\ result' = Raise("Exception")
                           /\ CACHE_FILE' = CACHE_FILE
    /\ UNCHANGED <<op, parse_state, db_vars, sync_vars, cfg, clock, ticks, worksheet>>

\* time passes
Tick ==
    /\ op = "fetch_rows"
    /\ ticks < MaxTicks
    /\ ticks' = ticks + 1
    /\ \E d \in {1, CACHE_DURATION} : clock' = clock + d
    /\ UNCHANGED <<op, result, parse_state, db_vars, sync_vars, cfg, CACHE_FILE, worksheet, calls,
                   fetched>>

\* the sheet is edited at Google Sheets
SheetEdit ==
    /\ op = "fetch_rows"
    /\ \E rs \in SheetRows \ {worksheet} : worksheet' = rs
    /\ UNCHANGED <<op, result, parse_state, db_vars, sync_vars, cfg, clock, ticks, CACHE_FILE, calls,
                   fetched>>

\* the user configures another sheet or tab; the rows are those of that tab
CfgChange ==
    /\ op = "fetch_rows"
    /\ \E c \in Cfgs \ {cfg} : cfg' = c
    /\ \E rs \in SheetRows : worksheet' = rs
    /\ UNCHANGED <<op, result, parse_state, db_vars, sync_vars, clock, ticks, CACHE_FILE, calls,
                   fetched>>

\* clear_cache, lines 88-100 of src/sheets_cache.py
ClearCache ==
    /\ op = "fetch_rows"
    /\ CACHE_FILE' = NoFile
    /\ UNCHANGED <<op, result, parse_state, db_vars, sync_vars, cfg, clock, ticks, worksheet, calls,
                   fetched>>

\* the cache file is cut short on disk: json.loads() will refuse it
CacheDamaged ==
    /\ op = "fetch_rows"
    /\ CACHE_FILE # NoFile
    /\ CACHE_FILE' = Unreadable
    /\ UNCHANGED <<op, result, parse_state, db_vars, sync_vars, cfg, clock, ticks, worksheet, calls,
                   fetched>>

\* insert_transaction, lines 74-97 of src/db_manager.py: INSERT OR REPLACE
InsertTransaction ==
    /\ op = "archive"
    /\ \E k \in Keys, d \in DbDates :
          table' = [table EXCEPT ![k] = << [date |-> d, archived |-> 0,
                                            updated_at |-> today] >>]
    /\ UNCHANGED <<op, result, parse_state, cache_vars, sync_vars, today, days, rowcount, active,
                   archive_calls>>

\* archive_old_transactions(days), lines 268-285
ArchiveOld ==
    /\ op = "archive"
    /\ archive_calls < MaxArchives
    /\ archive_calls' = archive_calls + 1
    /\ \E d \in DaysArgs :
          /\ days' = d
          /\ table' = archive_old_transactions(table, strftime(today - d), today)
          /\ rowcount' = Cardinality(archive_matches(table, strftime(today - d)))
    /\ UNCHANGED <<op, result, parse_state, cache_vars, sync_vars, today, active>>

\* unarchive_transaction(key), lines 287-294
Unarchive ==
    /\ op = "archive"
    /\ \E k \in Keys :
          /\ table[k] # <<>>
          /\ table' = [table EXCEPT ![k] = << [table[k][1] EXCEPT !.archived = 0,
                                                                  !.updated_at = today] >>]
    /\ UNCHANGED <<op, result, parse_state, cache_vars, sync_vars, today, days, rowcount, active,
                   archive_calls>>

\* get_active_transactions(), lines 116-130
GetActive ==
    /\ op = "archive"
    /\ active' = get_active_transactions(table)
    /\ UNCHANGED <<op, result, parse_state, cache_vars, sync_vars, table, today, days, rowcount,
                   archive_calls>>

\* set_status(row_key, pkg, stk), lines 175-179
SetStatus ==
    /\ op = "writes"
    /\ \E k \in RowKeys :
          /\ local_cache' = [local_cache EXCEPT !["status"] = @ \cup {k}]
          /\ IF ~connected
             THEN UNCHANGED <<pending_writes, accepted, replaced>>
             ELSE /\ lock = "free"
                  /\ Len(accepted) < MaxWrites
                  /\ LET st == enqueue([pending |-> pending_writes, accepted |-> accepted,
                                     replaced |-> replaced],
                                     "status", k, "dict")
                     IN  /\ pending_writes' = st.pending
                         /\ accepted' = st.accepted
                         /\ replaced' = st.replaced
    /\ UNCHANGED <<op, result, parse_state, cache_vars, db_vars, connected, write_running,
                   listener_vars, lock, snapshot, loop_pc, sent, copies,
                   connection_error_count>>

\* set_note(row_key, note_text), lines 196-200; "blank" is a text of
\* spaces only
SetNote ==
    /\ op = "writes"
    /\ \E k \in RowKeys, note_text \in {"text", "blank"} :
          /\ local_cache' = [local_cache EXCEPT !["notes"] =
                                IF note_text = "text" THEN @ \cup {k} ELSE @ \ {k}]
          /\ IF ~connected
             THEN UNCHANGED <<pending_writes, accepted, replaced>>
             ELSE /\ lock = "free"
                  /\ Len(accepted) < MaxWrites
                  /\ LET st == enqueue([pending |-> pending_writes, accepted |-> accepted,
                                     replaced |-> replaced],
                                     "notes", k,
                                     IF note_text = "text" THEN "text" ELSE "None")
                     IN  /\ pending_writes' = st.pending
                         /\ accepted' = st.accepted
                         /\ replaced' = st.replaced
    /\ UNCHANGED <<op, result, parse_state, cache_vars, db_vars, connected, write_running,
                   listener_vars, lock, snapshot, loop_pc, sent, copies,
                   connection_error_count>>

\* set_transactions_batch(transactions), lines 227-232
SetTransactionsBatch ==
    /\ op = "writes"
    /\ \E keys \in {<<"k1">>, <<"k2">>, <<"k1", "k2">>} :
          /\ local_cache' = [local_cache EXCEPT !["transactions"] = @ \cup Range(keys)]
          /\ IF ~connected
             THEN UNCHANGED <<pending_writes, accepted, replaced>>
             ELSE /\ lock = "free"
                  /\ Len(accepted) + Len(keys) <= MaxWrites
                  /\ LET st == update([pending |-> pending_writes, accepted |-> accepted,
                                     replaced |-> replaced], keys)
                     IN  /\ pending_writes' = st.pending
                         /\ accepted' = st.accepted
                         /\ replaced' = st.replaced
    /\ UNCHANGED <<op, result, parse_state, cache_vars, db_vars, connected, write_running,
                   listener_vars, lock, snapshot, loop_pc, sent, copies,
                   connection_error_count>>

\* reconnect(), lines 70-80
Reconnect ==
    /\ op = "writes"
    /\ \/ /\ connected' = TRUE
          /\ connection_error_count' = 0
       \/ /\ connection_error_count < MaxErrors
          /\ connection_error_count' = connection_error_count + 1
          /\ connected' = connected
    /\ UNCHANGED <<op, result, parse_state, cache_vars, db_vars, write_running,
                   listener_vars, lock, pending_writes, snapshot, loop_pc, accepted, sent,
                   copies, replaced, local_cache>>

\* line 93: the loop goes on while _write_running and _connected
LoopWhile ==
    /\ op = "writes"
    /\ loop_pc = "while"
    /\ loop_pc' = IF write_running /\ connected THEN "sleep" ELSE "exited"
    /\ UNCHANGED <<op, result, parse_state, cache_vars, db_vars, connected, write_running,
                   listener_vars, lock, pending_writes, snapshot, accepted, sent, copies,
                   replaced, local_cache, connection_error_count>>

LoopLock_takes_no_lock ==
    /\ loop_pc = "sleep"
    /\ loop_pc' = "locked"
    /\ UNCHANGED <<op, result, parse_state, cache_vars, db_vars, connected, write_running,
                   listener_vars, lock, pending_writes, snapshot, accepted, sent, copies,
                   replaced, local_cache, connection_error_count>>

\* lines 95-96: the sleep is over and the lock is taken
LoopLock ==
    /\ loop_pc = "sleep"
    /\ lock = "free"
    /\ lock' = "loop"
    /\ loop_pc' = "locked"
    /\ UNCHANGED <<op, result, parse_state, cache_vars, db_vars, connected, write_running,
                   listener_vars, pending_writes, snapshot, accepted, sent, copies,
                   replaced, local_cache, connection_error_count>>

\* lines 97-99: the three maps are copied
LoopCopy ==
    /\ loop_pc = "locked"
    /\ snapshot' = pending_writes
    /\ copies' = [w \in DOMAIN copies |->
                     IF w \in Entries(pending_writes) THEN copies[w] + 1 ELSE copies[w]]
    /\ loop_pc' = "copied"
    /\ UNCHANGED <<op, result, parse_state, cache_vars, db_vars, connected, write_running,
                   listener_vars, lock, pending_writes, accepted, sent, replaced,
                   local_cache, connection_error_count>>

\* lines 101-103: the three maps are cleared and the lock is given back
LoopClear ==
    /\ loop_pc = "copied"
    /\ pending_writes' = NoWrites
    /\ lock' = "free"
    /\ loop_pc' = "status"
    /\ UNCHANGED <<op, result, parse_state, cache_vars, db_vars, connected, write_running,
                   listener_vars, snapshot, accepted, sent, copies, replaced, local_cache,
                   connection_error_count>>

\* line 105 and _batch_write_status, lines 111-129: one PATCH, which may fail
LoopStatus ==
    /\ loop_pc = "status"
    /\ loop_pc' = "notes"
    /\ IF EntriesOf(snapshot, "status") = {}
       THEN UNCHANGED <<sent, connection_error_count>>
       ELSE \/ /\ sent' = sent \cup EntriesOf(snapshot, "status")
               /\ connection_error_count' = 0
            \/ /\ sent' = sent
               /\ connection_error_count' = connection_error_count + 1
    /\ UNCHANGED <<op, result, parse_state, cache_vars, db_vars, connected, write_running,
                   listener_vars, lock, pending_writes, snapshot, accepted, copies,
                   replaced, local_cache>>

\* line 106 and _batch_write_notes, lines 131-147: one PATCH for the texts,
\* then one DELETE for each None; a DELETE that fails is passed over
LoopNotes ==
    /\ loop_pc = "notes"
    /\ loop_pc' = "transactions"
    /\ LET data    == {w \in EntriesOf(snapshot, "notes") : accepted[w].value # "None"}
           deletes == {w \in EntriesOf(snapshot, "notes") : accepted[w].value = "None"}
       IN  IF data \cup deletes = {}
           THEN UNCHANGED <<sent, connection_error_count>>
           ELSE \/ /\ \E done \in SUBSET deletes : sent' = sent \cup data \cup done
                   /\ connection_error_count' = 0
                \/ /\ data # {}
                   /\ sent' = sent
                   /\ connection_error_count' = connection_error_count + 1
    /\ UNCHANGED <<op, result, parse_state, cache_vars, db_vars, connected, write_running,
                   listener_vars, lock, pending_writes, snapshot, accepted, copies,
                   replaced, local_cache>>

\* line 107 and _batch_write_transactions, lines 149-159
LoopTransactions ==
    /\ loop_pc = "transactions"
    /\ loop_pc' = "while"
    /\ IF EntriesOf(snapshot, "transactions") = {}
       THEN UNCHANGED <<sent, connection_error_count>>
       ELSE \/ /\ sent' = sent \cup EntriesOf(snapshot, "transactions")
               /\ connection_error_count' = 0
            \/ /\ sent' = sent
               /\ connection_error_count' = connection_error_count + 1
    /\ snapshot' = NoWrites
    /\ UNCHANGED <<op, result, parse_state, cache_vars, db_vars, connected, write_running,
                   listener_vars, lock, pending_writes, accepted, copies, replaced,
                   local_cache>>

\* start_listener(on_change_callback), lines 235-240
StartListener ==
    /\ op = "listener"
    /\ IF ~connected \/ listener_running
       THEN UNCHANGED <<listener_running, pollers, delivered>>
       ELSE /\ Len(pollers) < MaxThreads
            /\ listener_running' = TRUE
            /\ pollers' = Append(pollers, "while")
            /\ delivered' = {}
    /\ UNCHANGED <<op, result, parse_state, cache_vars, db_vars, connected, write_running,
                   write_vars, callback_after_stop>>

\* stop_listener(), lines 335-338
StopListener ==
    /\ op \in {"writes", "listener"}
    /\ listener_running' = FALSE
    /\ write_running' = FALSE
    /\ UNCHANGED <<op, result, parse_state, cache_vars, db_vars, connected, write_vars,
                   pollers, delivered, callback_after_stop>>

\* line 244, and lines 250-252 when the loop goes on: the stream is opened
PollWhile ==
    /\ \E t \in 1..Len(pollers) :
          /\ pollers[t] = "while"
          /\ pollers' = [pollers EXCEPT ![t] = IF listener_running THEN "stream"
                                              ELSE "returned"]
    /\ UNCHANGED <<op, result, parse_state, cache_vars, db_vars, connected, write_running,
                   write_vars, listener_running, delivered, callback_after_stop>>

\* lines 254-255: a line of the stream arrives and _listener_running is read
PollLine ==
    /\ \E t \in 1..Len(pollers) :
          /\ pollers[t] = "stream"
          /\ pollers' = [pollers EXCEPT ![t] = IF listener_running THEN "line"
                                              ELSE "while"]
    /\ UNCHANGED <<op, result, parse_state, cache_vars, db_vars, connected, write_running,
                   write_vars, listener_running, delivered, callback_after_stop>>

\* lines 256-329: the line is passed over, or it is a change and
\* _on_change_callback is called
PollCallback ==
    /\ \E t \in 1..Len(pollers) :
          /\ pollers[t] = "line"
          /\ pollers' = [pollers EXCEPT ![t] = "stream"]
          /\ \/ UNCHANGED <<delivered, callback_after_stop>>
             \/ /\ delivered' = delivered \cup {t}
                /\ callback_after_stop' = (callback_after_stop \/ ~listener_running)
    /\ UNCHANGED <<op, result, parse_state, cache_vars, db_vars, connected, write_running,
                   write_vars, listener_running>>

\* lines 331-333: the stream ends or breaks, the thread sleeps and goes on
PollStreamEnds ==
    /\ \E t \in 1..Len(pollers) :
          /\ pollers[t] = "stream"
          /\ pollers' = [pollers EXCEPT ![t] = "while"]
    /\ UNCHANGED <<op, result, parse_state, cache_vars, db_vars, connected, write_running,
                   write_vars, listener_running, delivered, callback_after_stop>>

Next ==
    \/ SplitDetails
    \/ Normalize
    \/ RebuildIndex
    \/ Dispatch
    \/ ExcelParse
    \/ XmlOpen
    \/ XmlEntry
    \/ XmlEnd
    \/ PdfOpen
    \/ PdfBlock
    \/ PdfEnd
    \/ FacadeReturn
    \/ FetchRows
    \/ Tick
    \/ SheetEdit
    \/ CfgChange
    \/ ClearCache
    \/ CacheDamaged
    \/ InsertTransaction
    \/ ArchiveOld
    \/ Unarchive
    \/ GetActive
    \/ SetStatus
    \/ SetNote
    \/ SetTransactionsBatch
    \/ Reconnect
    \/ LoopWhile
    \/ LoopLock
    \/ LoopCopy
    \/ LoopClear
    \/ LoopStatus
    \/ LoopNotes
    \/ LoopTransactions
    \/ StartListener
    \/ StopListener
    \/ PollWhile
    \/ PollLine
    \/ PollCallback
    \/ PollStreamEnds

Spec == Init /\ [][Next]_vars

-----------------------------------------------------------------------------
(* Properties *)

Rows == {transactions[k] : k \in 1..Len(transactions)}

ParseDone == op = "parse" /\ pc = "done"

SplitDone == op = "split_details" /\ pc = "done"

\* v >= 0
AtLeastZero(v) ==
    \/ v.kind = "num" /\ (~v.neg \/ IsZero(v))
    \/ v.kind = "inf" /\ ~v.neg

\* the name of the date column in the bank's export
DateColumn == <<"D", "a", "t", "a">>

\* the rows of a sheet that hold column names
HeaderRows(rows) ==
    {i \in 1..Len(rows) :
        \E k \in 1..Len(rows[i]) :
            rows[i][k] # None /\
            strip(rows[i][k], Whitespace) \in {DateColumn} \cup Range(COLUMN_MAP)}

\* the header row has no cell that holds the column name col
HeaderLacks(rows, col) ==
    \E i \in HeaderRows(rows) :
        \A k \in 1..Len(rows[i]) :
            rows[i][k] = None \/ strip(rows[i][k], Whitespace) # col

\* C1: parse returns a list or raises StatementParsingError or a subclass of
\* it, whatever the path and the file.
C1_OnlyParsingErrors ==
    ParseDone =>
        \/ result.kind = "return"
        \/ result.kind = "raise" /\ result.exc \in StatementParsingErrors

\* C2: for a readable sheet whose header row lacks the payer or the amount
\* column, the spreadsheet extractor raises MissingColumnsError.
C2_MissingColumnsRaised ==
    ( /\ ParseDone
      /\ "ExcelBankStatementParser" \in invoked
      /\ content.fmt = "xlsx"
      /\ HeaderLacks(content.rows, COLUMN_MAP["payer"])
           \/ HeaderLacks(content.rows, COLUMN_MAP["amount"]) )
    => result = Raise("MissingColumnsError")

\* C3: the XML loop appends nothing for an Ntry element whose CdtDbtInd is
\* DBIT, whatever its amount and whatever was appended before.
C3_DebitNeverEmitted ==
    [][ ( /\ pc' = "ntry_loop"
          /\ idx' = idx + 1
          /\ ntry'[1].CdtDbtInd = DBIT )
        => transactions' = transactions ]_vars

\* a DBIT entry with a negative amount and a date, gone through after an
\* entry that was emitted
C3_Witness ==
    /\ pc = "ntry_loop"
    /\ idx = 2
    /\ ntry[1].CdtDbtInd = DBIT
    /\ ntry[1].Amt = <<"-", "5", ".", "0", "0">>
    /\ ntry[1].Dt = GoodDate
    /\ Len(transactions) = 1

\* C4: every transaction an extractor emits has an amount >= 0.
C4_AmountsAtLeastZero ==
    \A t \in Rows : AtLeastZero(t.amount)

\* C5: every transaction an extractor emits has a date that is neither None
\* nor empty.
C5_DatesPresent ==
    \A t \in Rows : t.date # None /\ t.date # <<>>

\* C6: the IBAN pattern matches nowhere in the payer of a transaction of the
\* PDF extractor, nor in the name split_details returns.
C6_NoIbanInName ==
    /\ "PDFBankStatementParser" \in invoked =>
           \A t \in Rows : IBAN_RE_search(t.payer) = NoMatch
    /\ SplitDone => IBAN_RE_search(triple.name) = NoMatch

\* the marker is in the details, letter case aside
HasMarker(details, marker) ==
    /\ details # None
    /\ \E a \in 0..(Len(details) - Len(marker)) :
           \A k \in 1..Len(marker) : upper_ch(details[a + k]) = marker[k]

HasBothMarkers(t) == HasMarker(t.details, PREKYB_ID) /\ HasMarker(t.details, TERM_SK)

\* C7: parse returns the extractor's transactions, in their order and as they
\* are, without those whose details hold both markers.
C7_FilterExact ==
    (ParseDone /\ result.kind = "return") =>
        result.value = SelectSeq(transactions, LAMBDA t : ~HasBothMarkers(t))

\* a transaction with both markers is dropped; one with a single marker and
\* one with empty details are kept
C7_Witness ==
    /\ ParseDone
    /\ result.kind = "return"
    /\ Len(transactions) = 2
    /\ Len(result.value) = 1
    /\ \E t \in Rows : HasBothMarkers(t)
    /\ HasMarker(result.value[1].details, TERM_SK)

\* the extension of the path is none of .xlsx, .xls, .xml, .pdf
Unsupported(p) ==
    lower(splitext(p)) \notin {<<".", "x", "l", "s", "x">>, <<".", "x", "l", "s">>,
                               <<".", "x", "m", "l">>, <<".", "p", "d", "f">>}

\* C8: for a path with another extension parse raises StatementParsingError
\* at once: no extractor is invoked and the file is not opened.
C8_UnsupportedRefused ==
    (op = "parse" /\ Unsupported(path)) =>
        /\ invoked = {}
        /\ ~opened
        /\ pc \in {"call", "done"}
        /\ pc = "done" => result = Raise("StatementParsingError")

\* a PDF file behind a path without extension is refused
C8_Witness ==
    /\ ParseDone
    /\ Unsupported(path)
    /\ content.fmt = "pdf"
    /\ content.pages # <<>>
    /\ result = Raise("StatementParsingError")

\* the three parts of a text around its first IBAN match
Before(s) == Slice(s, 0, IBAN_RE_search(s).start)

Matched(s) == Slice(s, IBAN_RE_search(s).start, IBAN_RE_search(s).end)

After(s) == Slice(s, IBAN_RE_search(s).end, Len(s))

HasIban(s) == s # None /\ IBAN_RE_search(s) # NoMatch

\* whitespace runs collapsed: the same tokens, single spaces between them
Collapsed(s, t) ==
    /\ split(s) = split(t)
    /\ Len(t) = Len(Flatten(split(t))) + (IF split(t) = <<>> THEN 0 ELSE Len(split(t)) - 1)
    /\ \A k \in 1..Len(t) : t[k] \in Whitespace => t[k] = " "

\* the canonical form: LT and the digits of the span in their order
Canonical(span) == <<"L", "T">> \o SelectSeq(span, isdigit)

\* t is s without its leading characters of chars
TrimmedLeft(s, t, chars) ==
    \E a \in 0..Len(s) :
        /\ t = Slice(s, a, Len(s))
        /\ \A k \in 1..a : s[k] \in chars
        /\ t = <<>> \/ t[1] \notin chars

\* t is s without its leading and its trailing characters of chars
TrimmedBoth(s, t, chars) ==
    \E a \in 0..Len(s) : \E b \in a..Len(s) :
        /\ t = Slice(s, a, b)
        /\ \A k \in 1..a : s[k] \in chars
        /\ \A k \in (b + 1)..Len(s) : s[k] \in chars
        /\ t = <<>> \/ (t[1] \notin chars /\ t[Len(t)] \notin chars)

\* C9 as claimed: when the IBAN pattern matches, name is the text before the
\* first match with its whitespace collapsed, iban the canonical form of the
\* match, and comment the text after the match without its leading separators,
\* the rest of it kept as it is.
C9_CommentKeepsItsEnd ==
    (SplitDone /\ HasIban(text)) =>
        /\ Collapsed(Before(text), triple.name)
        /\ triple.iban = Canonical(Matched(text))
        /\ TrimmedLeft(After(text), triple.comment, CommentStrip)

\* C9 amended: as claimed, but comment is the text after the match without
\* its leading and without its trailing characters among space, tab, "-",
\* ",", ":" and ";".
C9_CommentTrimmedAtBothEnds ==
    (SplitDone /\ HasIban(text)) =>
        /\ Collapsed(Before(text), triple.name)
        /\ triple.iban = Canonical(Matched(text))
        /\ TrimmedBoth(After(text), triple.comment, CommentStrip)

\* a name, an IBAN and a comment that lost separators at its end
C9_Witness ==
    /\ SplitDone
    /\ HasIban(text)
    /\ triple.name # <<>>
    /\ triple.comment # <<>>
    /\ After(text)[Len(After(text))] \in CommentStrip
    /\ Before(text) # triple.name

\* LT and 16 to 20 digits
WellFormedIban(i) ==
    /\ Len(i) - 2 \in (1 + IbanMinRepeat)..(1 + IbanMaxRepeat)
    /\ i[1] = "L"
    /\ i[2] = "T"
    /\ \A k \in 3..Len(i) : i[k] \in Digits

\* the block the PDF loop has just gone through
Block == block_content(stream, anchors, idx)

\* C10: a non-empty iban of split_details or of the PDF extractor is LT and
\* 16 to 20 digits, the digits of the matched span in their order.
C10_IbanCanonical ==
    /\ (SplitDone /\ triple.iban # <<>>) =>
           /\ WellFormedIban(triple.iban)
           /\ HasIban(text)
           /\ triple.iban = Canonical(Matched(text))
    /\ (pc = "block_loop" /\ row # <<>> /\ row[1].iban # <<>>) =>
           /\ WellFormedIban(row[1].iban)
           /\ HasIban(Block)
           /\ row[1].iban = Canonical(Matched(Block))

\* an IBAN written in lower case with spaces and a line break among its
\* digits, in a block of the PDF extractor
C10_Witness ==
    /\ pc = "block_loop"
    /\ row # <<>>
    /\ Len(row[1].iban) = 20
    /\ \E k \in 1..Len(Matched(Block)) : Matched(Block)[k] = "\n"
    /\ Matched(Block)[1] = "l"

\* the first n whitespace-delimited tokens of s
FirstTokens(s, n) == SubSeq(split(s), 1, IF Len(split(s)) < n THEN Len(split(s)) ELSE n)

\* C11: when the IBAN pattern matches nowhere, iban is empty, name is the first
\* two tokens of the input joined by one space (the one token if it has one),
\* and the tokens of name followed by the tokens of comment are the tokens of
\* the input, whatever its spacing.
C11_TokensPartitioned ==
    (SplitDone /\ text # None /\ ~HasIban(text)) =>
        /\ triple.iban = <<>>
        /\ triple.name = join(<<" ">>, FirstTokens(text, 2))
        /\ split(triple.name) \o split(triple.comment) = split(text)

\* a Python str: a sequence of characters, and not None
IsStr(s) ==
    /\ DOMAIN s = 1..Len(s)
    /\ \A k \in 1..Len(s) : s[k] \notin {None[1], Absent[1]}

\* C12: split_details returns a triple of three strings for every input, the
\* empty string, None, whitespace alone and an IBAN alone among them, and
\* three empty strings for the empty string.
C12_Total ==
    SplitDone =>
        /\ DOMAIN triple = {"name", "iban", "comment"}
        /\ IsStr(triple.name)
        /\ IsStr(triple.iban)
        /\ IsStr(triple.comment)
        /\ text = <<>> => triple = [name |-> <<>>, iban |-> <<>>, comment |-> <<>>]

\* None gave three empty strings
C12_Witness ==
    /\ SplitDone
    /\ text = None
    /\ triple = [name |-> <<>>, iban |-> <<>>, comment |-> <<>>]

\* C13: normalize applied to what normalize returned returns it unchanged,
\* and normalize of the empty string is the empty string.
C13_NormalizeIdempotent ==
    [][ op = "normalize" =>
            /\ pc = "once" => result' = result
            /\ (pc = "call" /\ text = <<>>) => result' = Return(<<>>) ]_vars

RECURSIVE DigitsToNat(_)
\* the number a sequence of digits writes
DigitsToNat(ds) ==
    IF ds = <<>> THEN 0
    ELSE 10 * DigitsToNat(SubSeq(ds, 1, Len(ds) - 1))
         + (CHOOSE d \in 0..9 : ToString(d) = ds[Len(ds)])

\* the amount a price writes, rounded to 2 decimals, in cents: the thousandths
\* are kept and rounded half up
Cents(price) ==
    LET v == float(price)
        thousandths == SubSeq(v.frac \o <<"0", "0", "0">>, 1, 3)
    IN  (DigitsToNat(v.int \o thousandths) + 5) \div 10

\* the key rebuild_index gave to the raw row numbered n
KeyOf(n) == df[CHOOSE k \in 1..Len(df) : df[k].row_no = n].key

\* C14: two rows with the same date and details get the same key when their
\* amounts are equal after rounding to 2 decimals, and different keys when
\* the rounded amounts differ.
C14_KeyRoundsAmount ==
    (op = "rebuild_index" /\ pc = "done") =>
        \A i, j \in 1..Len(raw_rows) :
            ( /\ raw_rows[i].date = raw_rows[j].date
              /\ raw_rows[i].details = raw_rows[j].details
              /\ float(raw_rows[i].price).kind = "num"
              /\ float(raw_rows[j].price).kind = "num" )
            => (KeyOf(i) = KeyOf(j) <=> Cents(raw_rows[i].price) = Cents(raw_rows[j].price))

\* the first amount token of a block, NoMatch for none
AmountToken(b) == amt_pattern_search(b)

\* the token is written with a minus sign and is not zero
NegativeToken(m) ==
    /\ m.sign \in {<<"-">>, <<"MINUS">>}
    /\ \E k \in 1..Len(m.integer_part \o m.decimal_part) :
           (m.integer_part \o m.decimal_part)[k] \in Digits \ {"0"}

\* the block has an amount token and the amount is not negative
ValidBlock(b) == AmountToken(b) # NoMatch /\ ~NegativeToken(AmountToken(b))

\* C15: the PDF loop appends, for each date-anchored block in stream order,
\* one transaction dated by the block's anchor when the block's first amount
\* token exists and is not negative, and nothing otherwise; what the blocks
\* before it gave stays as it is.
C15_OneRowPerValidBlock ==
    [][ (pc = "block_loop" /\ idx' = idx + 1) =>
            LET b == block_content(stream, anchors, idx')
            IN  IF ValidBlock(b)
                THEN /\ Len(transactions') = Len(transactions) + 1
                     /\ SubSeq(transactions', 1, Len(transactions)) = transactions
                     /\ transactions'[Len(transactions')].date = anchors[idx'].date
                ELSE transactions' = transactions ]_vars

\* the tokens of s once the span [a, b) of offsets is taken out of it, if
\* the span lies in s: the tokens before the span and the tokens after it
CutTokens(s, a, b) ==
    IF 0 <= a /\ b <= Len(s)
    THEN split(Slice(s, 0, a)) \o split(Slice(s, b, Len(s)))
    ELSE split(s)

\* t is s without the span, its whitespace collapsed to single spaces
CutAndCollapsed(s, a, b, t) ==
    /\ split(t) = CutTokens(s, a, b)
    /\ Collapsed(t, t)

\* C16: for a block with an IBAN after a name, payer is the text before the
\* IBAN without the amount token, iban the canonical IBAN, and details the
\* text after the IBAN without the amount token if it lies there, the
\* whitespace of both collapsed to single spaces.
C16_PayerBeforeIban ==
    ( /\ pc = "block_loop"
      /\ row # <<>>
      /\ HasIban(Block)
      /\ CutTokens(Before(Block), AmountToken(Block).start, AmountToken(Block).end)
             # <<>> ) =>
        LET m  == AmountToken(Block)
            ib == IBAN_RE_search(Block)
        IN  /\ CutAndCollapsed(Before(Block), m.start, m.end, row[1].payer)
            /\ row[1].iban = Canonical(Matched(Block))
            /\ CutAndCollapsed(After(Block), m.start - ib.end, m.end - ib.end,
                               row[1].details)

\* a name on two lines before the IBAN, the amount between the date and the
\* name
C16_Witness ==
    /\ pc = "block_loop"
    /\ row # <<>>
    /\ HasIban(Block)
    /\ AmountToken(Block).end <= IBAN_RE_search(Block).start
    /\ \E k \in 1..Len(Before(Block)) :
           Before(Block)[k] = "\n" /\ k > AmountToken(Block).end
    /\ Len(split(row[1].payer)) = 2
    /\ row[1].details # <<>>

\* the RmtInf of the entry the XML loop has just gone through, <<>> for none
EntryRmtInf ==
    IF ntry = <<>> \/ ntry[1].TxDtls = <<>> THEN <<>> ELSE ntry[1].TxDtls[1].RmtInf

\* the texts of the Ustrd nodes that have text, in document order
UstrdTexts(rmt) == SelectSeq(rmt.Ustrd, LAMBDA t : t # None /\ t # <<>>)

\* the texts of the Strd/CdtrRefInf/Ref nodes that have text, in document order
RefValues(rmt) == SelectSeq(rmt.Strd, LAMBDA r : r # Absent /\ r # None /\ r # <<>>)

\* C17: for an emitted entry with remittance information, details is the
\* texts of the Ustrd nodes that have text, joined by single spaces in
\* document order, when there is such a node; when there is none, details is
\* the Ref values of the Strd nodes joined the same way, and holds each of them.
C17_DetailsFromRemittance ==
    (pc = "ntry_loop" /\ row # <<>> /\ EntryRmtInf # <<>>) =>
        LET rmt == EntryRmtInf[1]
        IN  /\ UstrdTexts(rmt) # <<>> =>
                   row[1].details = join(<<" ">>, UstrdTexts(rmt))
            /\ (UstrdTexts(rmt) = <<>> /\ RefValues(rmt) # <<>>) =>
                   /\ row[1].details = join(<<" ">>, RefValues(rmt))
                   /\ \A k \in 1..Len(RefValues(rmt)) :
                          Contains(row[1].details, RefValues(rmt)[k])

\* a Ustrd node without text and two references around a Strd node without
\* one: details holds both references
C17_Witness ==
    /\ pc = "ntry_loop"
    /\ row # <<>>
    /\ EntryRmtInf # <<>>
    /\ EntryRmtInf[1].Ustrd # <<>>
    /\ UstrdTexts(EntryRmtInf[1]) = <<>>
    /\ Len(RefValues(EntryRmtInf[1])) = 2
    /\ Len(EntryRmtInf[1].Strd) = 3
    /\ row[1].details = <<"3", "0", "4", "6", "1", "5", "4", "3", "5", " ", "7">>

\* the text of the PDF file holds a YYYY-MM-DD date
HasDateAnchor ==
    \E a \in 0..Len(full_stream(content.pages)) : DateMatchAt(full_stream(content.pages), a)

\* the XML extractor has gone through a document it could parse
XmlRead == "XMLBankStatementParser" \in invoked /\ content.fmt = "xml"

\* the PDF extractor has gone through a file it could read
PdfRead == "PDFBankStatementParser" \in invoked /\ content.fmt = "pdf" /\ PYPDF_AVAILABLE

\* C18: an XML document without any Ntry element and a PDF text without any
\* date anchor end in StatementParsingError; a document with Ntry elements and
\* a text with date anchors of which none gives a transaction end in the
\* empty list.
C18_NoRecordIsFatal ==
    ParseDone =>
        /\ (XmlRead /\ idx = 0) => result = Raise("StatementParsingError")
        /\ (XmlRead /\ idx > 0 /\ transactions = <<>>) => result = Return(<<>>)
        /\ (PdfRead /\ ~HasDateAnchor) => result = Raise("StatementParsingError")
        /\ (PdfRead /\ HasDateAnchor /\ transactions = <<>>) => result = Return(<<>>)

\* an XML document without Ntry elements was refused
C18_Witness ==
    /\ ParseDone
    /\ XmlRead
    /\ idx = 0
    /\ transactions = <<>>
    /\ result = Raise("StatementParsingError")

\* C20: the XML loop emits a transaction only for an Ntry element whose
\* CdtDbtInd is CRDT; a missing or empty indicator, or another value, gives
\* none.
C20_OnlyCreditEmitted ==
    (pc = "ntry_loop" /\ row # <<>>) => ntry[1].CdtDbtInd = <<"C", "R", "D", "T">>

\* amount cells with a thousands separator or a currency code, and the values
\* they stand for
GroupedAmounts ==
    { [cell  |-> <<"1", " ", "2", "3", "4", ",", "5", "6">>,
       value |-> Number(FALSE, <<"1", "2", "3", "4">>, <<"5", "6">>)],
      [cell  |-> <<"1", "2", ",", "5", "0", " ", "E", "U", "R">>,
       value |-> Number(FALSE, <<"1", "2">>, <<"5", "0">>)] }

\* a row below the header row holds cell in the amount column
HasAmountCell(rows, cell) ==
    \E i \in HeaderRows(rows) :
        \E k \in 1..Len(rows[i]) :
            /\ rows[i][k] # None
            /\ strip(rows[i][k], Whitespace) = COLUMN_MAP["amount"]
            /\ \E j \in (i + 1)..Len(rows) : rows[j][k] = cell

\* C21: a spreadsheet row whose amount cell is '1 234,56' or '12,50 EUR' is
\* emitted with the value 1234.56 or 12.50 and is not dropped.
C21_GroupedAmountEmitted ==
    \A g \in GroupedAmounts :
        ( /\ ParseDone
          /\ "ExcelBankStatementParser" \in invoked
          /\ content.fmt = "xlsx"
          /\ HasAmountCell(content.rows, g.cell) )
        => /\ result.kind = "return"
           /\ \E k \in 1..Len(result.value) : result.value[k].amount = g.value

\* the tokens of the block before its IBAN and after it, the amount token
\* taken out
NameTokensBefore ==
    CutTokens(Before(Block), AmountToken(Block).start, AmountToken(Block).end)

NameTokensAfter ==
    CutTokens(After(Block), AmountToken(Block).start - IBAN_RE_search(Block).end,
              AmountToken(Block).end - IBAN_RE_search(Block).end)

\* C22: for a block with nothing but the amount before its IBAN and a text
\* after it, payer is the first two tokens of the text after the IBAN and
\* details the tokens that remain; payer is 'Statement Entry' only when there
\* is no name text on either side of the IBAN.
C22_NameAfterIban ==
    (pc = "block_loop" /\ row # <<>> /\ HasIban(Block)) =>
        /\ (NameTokensBefore = <<>> /\ NameTokensAfter # <<>>) =>
               /\ row[1].payer = join(<<" ">>, SubSeq(NameTokensAfter, 1,
                                                      Min({2, Len(NameTokensAfter)})))
               /\ row[1].details = join(<<" ">>, SubSeq(NameTokensAfter, 3,
                                                        Len(NameTokensAfter)))
        /\ row[1].payer = StatementEntry =>
               NameTokensBefore = <<>> /\ NameTokensAfter = <<>>

\* the entry has no booking date, no amount, or an amount that is no number
BrokenEntry(e) ==
    \/ e.Dt = Absent
    \/ e.Amt \in {Absent, None}
    \/ float(e.Amt) = ValueError

\* C23: the XML loop skips an Ntry element without BookgDt/Dt, without Amt
\* or with an Amt that is no number, and raises nothing; a credit entry with
\* both is appended after what the entries before it gave; a document with
\* any Ntry element ends in the filter, not in an exception.
C23_BrokenEntrySkipped ==
    [][ /\ (pc = "ntry_loop" /\ idx' = idx + 1) =>
               /\ pc' = "ntry_loop"
               /\ result' = result
               /\ BrokenEntry(ntry'[1]) => transactions' = transactions
               /\ (~BrokenEntry(ntry'[1]) /\ ntry'[1].CdtDbtInd = <<"C", "R", "D", "T">>) =>
                      /\ Len(transactions') = Len(transactions) + 1
                      /\ SubSeq(transactions', 1, Len(transactions)) = transactions
                      /\ transactions'[Len(transactions')].date = ntry'[1].Dt
                      /\ transactions'[Len(transactions')].amount = abs(float(ntry'[1].Amt))
        /\ (pc = "ntry_loop" /\ pc' # "ntry_loop" /\ idx > 0) =>
               pc' = "filter" /\ result' = result ]_vars

\* an entry whose amount is no number, gone through after a credit entry
\* that was emitted and stays emitted
C23_Witness ==
    /\ pc = "ntry_loop"
    /\ idx = 2
    /\ ntry[1].Amt = <<"a", "b", "c">>
    /\ ntry[1].Dt = GoodDate
    /\ ntry[1].CdtDbtInd = <<"C", "R", "D", "T">>
    /\ row = <<>>
    /\ Len(transactions) = 1
    /\ transactions[1].amount = Number(FALSE, <<"5">>, <<>>)

\* C24: in a block with an IBAN, the span of the amount token and the span
\* of the IBAN have no offset in common.
C24_SpansDisjoint ==
    (pc = "block_loop" /\ row # <<>> /\ HasIban(Block)) =>
        \/ AmountToken(Block).end <= IBAN_RE_search(Block).start
        \/ IBAN_RE_search(Block).end <= AmountToken(Block).start

\* the configuration names a spreadsheet and a credentials file
Configured == cfg.spreadsheet_id # <<>> /\ cfg.credentials_path # <<>>

\* the cache file was saved for the configured sheet and tab, at most
\* CACHE_DURATION seconds ago
Fresh ==
    /\ CACHE_FILE.kind = "JSON"
    /\ CACHE_FILE.spreadsheet_id = cfg.spreadsheet_id
    /\ CACHE_FILE.tab_name = cfg.tab_name
    /\ clock - CACHE_FILE.timestamp <= CACHE_DURATION

C26_EmptyCacheRefetched ==
    [][ (calls' = calls + 1 /\ Configured /\ Fresh /\ CACHE_FILE.rows = <<>>) =>
            fetched' ]_vars

\* a date written DD.MM.YYYY turned into YYYY-MM-DD; any other text as it is
IsoText(date) ==
    IF Len(date) = 10 /\ date[3] = "." /\ date[6] = "."
    THEN SubSeq(date, 7, 10) \o <<"-">> \o SubSeq(date, 4, 5) \o <<"-">> \o SubSeq(date, 1, 2)
    ELSE date

\* the number of the day a date text names, -1 when it names no day of the
\* calendar
CalendarDay(date) ==
    IF \E n \in 0..MaxDay : strftime(n) = IsoText(date)
    THEN CHOOSE n \in 0..MaxDay : strftime(n) = IsoText(date)
    ELSE -1

\* the row of key k is not archived and its date is earlier than the day
\* number cutoff
Due(k, cutoff) ==
    /\ table[k] # <<>>
    /\ table[k][1].archived = 0
    /\ CalendarDay(table[k][1].date) >= 0
    /\ CalendarDay(table[k][1].date) < cutoff

\* C27: archive_old_transactions(days) sets archived = 1 on exactly the rows
\* that are not archived and whose date is earlier than today minus days,
\* leaves every other row as it is, and returns the number of rows it
\* archived; no row it leaves active is archived, and the same call right
\* after it archives nothing and returns 0.
C27_ArchivesExactlyOld ==
    [][ archive_calls' = archive_calls + 1 =>
            /\ \A k \in Keys :
                   IF Due(k, today - days')
                   THEN /\ table'[k] # <<>>
                        /\ table'[k][1].archived = 1
                        /\ table'[k][1].date = table[k][1].date
                   ELSE table'[k] = table[k]
            /\ rowcount' = Cardinality({k \in Keys : Due(k, today - days')})
            /\ \A k \in get_active_transactions(table') : table'[k][1].archived = 0
            /\ archive_matches(table', strftime(today - days')) = {}
      ]_vars

\* the writes enqueued so far
Writes == 1..Len(accepted)

\* the write w is the entry of its row key in a pending map
IsPending(w) == w \in Entries(pending_writes)

\* C28: under every interleaving of set_status, set_note and
\* set_transactions_batch with the write loop, a write enqueued while
\* connected is copied into at most one snapshot; while it is the pending
\* entry of its row key it has not been copied, except between the loop's
\* copy and its clear under the lock; and once it is no longer pending it
\* was either copied into exactly one snapshot or overwritten, before any
\* copy, by a later write for the same row key.
C28_CopiedOnceOrSuperseded ==
    \A w \in Writes :
       /\ copies[w] <= 1
       /\ IsPending(w) => copies[w] = (IF loop_pc = "copied" THEN 1 ELSE 0)
       /\ ~IsPending(w) => \/ copies[w] = 1 /\ w \notin replaced
                           \/ copies[w] = 0 /\ w \in replaced

\* C28, its case: the loop has copied and cleared a write and is sending,
\* and a write enqueued since then is pending and in no snapshot
C28_Witness ==
    /\ loop_pc \in {"status", "notes", "transactions"}
    /\ \E w \in Writes : copies[w] = 1 /\ w \in Entries(snapshot)
    /\ \E w \in Writes : IsPending(w) /\ copies[w] = 0

\* C28 as stated: every write enqueued while connected is pending or is
\* contained in exactly one batch snapshot
C28_EveryWriteInOneSnapshot ==
    \A w \in Writes : IsPending(w) \/ copies[w] = 1

\* C29: between two batch cycles, every write accepted while connected has
\* been sent to the server, is pending for a later cycle, or was overwritten
\* by a later write for the same row key
C29_NeverDiscarded ==
    loop_pc \in {"none", "while", "sleep", "exited"}
        => \A w \in Writes : w \in sent \/ IsPending(w) \/ w \in replaced

\* C30: at most one thread of _poll_changes delivers change callbacks
\* after a start_listener, and no change callback is delivered while the
\* listener is stopped
C30_OneListener ==
    /\ Cardinality(delivered) <= 1
    /\ ~callback_after_stop

====
